---- MODULE Spec2Model ----
(***************************************************************************)
(* Verification model of the FTO random-state solver: coordinate codecs,   *)
(* raw turn catalog, RawState / CoordState, move tables, pruning tables    *)
(* and the phase-1 search.                                                 *)
(*                                                                         *)
(* Rust arrays are modelled as functions over 0..N-1 so that the indices   *)
(* of the source are kept; Rust Vecs that are pushed / popped / removed    *)
(* from are modelled as sequences.                                         *)
(***************************************************************************)
EXTENDS Integers, Sequences, FiniteSets, TLC

\* A Rust array literal: the function over 0..Len-1 with the same elements.
Arr(s) == [i \in 0..(Len(s) - 1) |-> s[i + 1]]

\* Number of elements of an array.
ALen(a) == Cardinality(DOMAIN a)

\* a.swap(i, j)
Swap(a, i, j) == [a EXCEPT ![i] = a[j], ![j] = a[i]]

\* a ^ b on single bits
Xor(a, b) == (a + b) % 2

(***************************************************************************)
(* movedefs.rs / coordinates.rs constants                                  *)
(***************************************************************************)
NUM_CORNERS == 6
NUM_EDGES == 12
NUM_CENTRES == 12
NUM_CORNER_PERMS == 360
NUM_CORNER_STATES == 11520
NUM_FACE_PIECE_PERMS == 369600
NUM_ACROSS_FACE_PERMS == 34650
U8_MAX == 255
\* u32::MAX, the "not filled yet" mark of a move table.  The number itself does
\* not fit the model checker's integers; the code only ever compares an entry
\* with it, so any value outside every coordinate range stands for it.
U32_SENTINEL == -1

\* Mutant: the main centres of the first two corners are exchanged.
CORNER_MAIN_TRIPLE_CENTRE_exchanged == Arr(<<0, 6, 3, 11, 10, 9>>)
CORNER_MAIN_TRIPLE_CENTRE == Arr(<<6, 0, 3, 11, 10, 9>>)
CORNER_FLIPPED_TRIPLE_CENTRE == Arr(<<1, 4, 7, 2, 5, 8>>)

\* precompute_binomial_table: table[n][0] = 1, table[n][k] = table[n-1][k-1]
\* + table[n-1][k] for 1 <= k <= n, every other entry 0.
RECURSIVE BinomialEntry(_, _)
BinomialEntry(n, k) ==
    IF k = 0 THEN 1
    ELSE IF k > n THEN 0
    ELSE BinomialEntry(n - 1, k - 1) + BinomialEntry(n - 1, k)

BINOMIAL_TABLE == [n \in 0..12 |-> [k \in 0..12 |-> BinomialEntry(n, k)]]

(***************************************************************************)
(* state.rs: apply_raw_permutation                                         *)
(***************************************************************************)
\* Mutant: the value is read from the array being written, not the copy.
write_entry_in_place(state, orig_state, effect, i) ==
    [state EXCEPT ![i] = state[effect[i]]]

\* state[i] = orig_state[effect[i] as usize]
write_entry(state, orig_state, effect, i) ==
    [state EXCEPT ![i] = orig_state[effect[i]]]

\* Mutant: pushes instead of pulls (state[effect[i]] <- orig[i]).
apply_raw_permutation_push(state, effect) ==
    [i \in DOMAIN state |->
        IF \E k \in DOMAIN effect : effect[k] = i
        THEN state[CHOOSE k \in DOMAIN effect : effect[k] = i]
        ELSE state[i]]

\* state[i] = orig_state[effect[i]] for i < effect.len(); the rest is kept.
apply_raw_permutation(state, effect) ==
    [i \in DOMAIN state |-> IF i \in DOMAIN effect THEN state[effect[i]] ELSE state[i]]

(***************************************************************************)
(* coordinates.rs: even-permutation codec                                  *)
(***************************************************************************)
\* Number of j < i with positions[i] < positions[j].
InversionsBefore(positions, i) ==
    Cardinality({j \in 0..(i - 1) : positions[i] < positions[j]})

RECURSIVE permutation_to_coord_loop(_, _, _)
permutation_to_coord_loop(positions, i, coord) ==
    IF i < 2 THEN coord
    ELSE LET added == coord + InversionsBefore(positions, i)
             scaled == IF i > 2 THEN added * i ELSE added
         IN permutation_to_coord_loop(positions, i - 1, scaled)

permutation_to_coord(positions) ==
    permutation_to_coord_loop(positions, ALen(positions) - 1, 0)

\* get_factors::<N>: factors[i] = 1 for i < 3, factors[i] = factors[i-1] * i.
RECURSIVE get_factor(_)
get_factor(i) == IF i < 3 THEN 1 ELSE get_factor(i - 1) * i

\* Vec::remove(idx) on a sequence holding the Vec (idx is 0-based).
VecRemoveAt(v, idx) == SubSeq(v, 1, idx) \o SubSeq(v, idx + 2, Len(v))

\* for i in (0..N).rev(): perm[i] = available.remove(coord / factors[i]);
\* coord %= factors[i]
RECURSIVE invert_perm_loop(_, _, _, _)
invert_perm_loop(perm, available, coord, i) ==
    IF i < 0 THEN perm
    ELSE LET idx == coord \div get_factor(i)
         IN invert_perm_loop([perm EXCEPT ![i] = available[idx + 1]],
                             VecRemoveAt(available, idx),
                             coord % get_factor(i), i - 1)

invert_coord_to_permutation_ignore_parity(N, coord) ==
    invert_perm_loop([i \in 0..(N - 1) |-> 0],
                     [k \in 1..N |-> N - k], coord, N - 1)

\* result starts true and is xor-ed with perm[i] > perm[j] for every i < j.
is_even_parity(perm) ==
    LET n == ALen(perm)
        inv == Cardinality({p \in (0..(n - 1)) \X (0..(n - 1)) :
                              p[1] < p[2] /\ perm[p[1]] > perm[p[2]]})
    IN inv % 2 = 0

\* Mutant: the odd-parity corrector is left out.
invert_coord_to_permutation_nofix(N, coord) ==
    invert_coord_to_permutation_ignore_parity(N, coord)

invert_coord_to_permutation(N, coord) ==
    LET perm == invert_coord_to_permutation_ignore_parity(N, coord)
    IN IF ~is_even_parity(perm) THEN Swap(perm, 0, 1) ELSE perm

(***************************************************************************)
(* coordinates.rs: CornerState codec                                       *)
(***************************************************************************)
\* for s in &state[1..]: orientation = orientation * 2 + s % 2
RECURSIVE corner_orientation_bits(_, _, _)
corner_orientation_bits(state, i, orientation) ==
    IF i > ALen(state) - 1 THEN orientation
    ELSE corner_orientation_bits(state, i + 1, orientation * 2 + (state[i] % 2))

corner_state_to_coord(state) ==
    permutation_to_coord(state)
        + corner_orientation_bits(state, 1, 0) * NUM_CORNER_PERMS

\* for i in (1..NUM_CORNERS).rev(): flip = oc % 2; oc /= 2; first_flip ^= flip;
\* state[i] = state[i] * 2 + flip.  Then state[0] = state[0] * 2 + first_flip.
RECURSIVE invert_corner_loop(_, _, _, _)
invert_corner_loop(state, orientation_coord, first_flip, i) ==
    IF i < 1 THEN [state EXCEPT ![0] = state[0] * 2 + first_flip]
    ELSE LET flip == orientation_coord % 2
         IN invert_corner_loop([state EXCEPT ![i] = state[i] * 2 + flip],
                               orientation_coord \div 2,
                               Xor(first_flip, flip), i - 1)

invert_coord_to_corner_state(coord) ==
    invert_corner_loop(
        invert_coord_to_permutation(NUM_CORNERS, coord % NUM_CORNER_PERMS),
        coord \div NUM_CORNER_PERMS, 0, NUM_CORNERS - 1)

(***************************************************************************)
(* coordinates.rs: face-class codec (sub_permutation_coord and inverse)    *)
(***************************************************************************)
\* The scan of one group over positions[0..idx]: <<n, k, added>>, n and k
\* as the scan leaves them and added what it has added to coord.
\* piece = (position / num_per_group) * num_per_group;
\* n += piece <= face; k += piece == face;
\* if n >= 0 && k >= 0 && piece <= face && piece != face: coord += C(n, k)
RECURSIVE sub_permutation_scan(_, _, _, _)
sub_permutation_scan(positions, num_per_group, face, idx) ==
    IF idx < 0 THEN <<-1, -1, 0>>
    ELSE LET piece == (positions[idx] \div num_per_group) * num_per_group
             before == sub_permutation_scan(positions, num_per_group, face, idx - 1)
             n == IF piece <= face THEN before[1] + 1 ELSE before[1]
             k == IF piece = face THEN before[2] + 1 ELSE before[2]
             added == IF n >= 0 /\ k >= 0 /\ piece <= face /\ piece # face
                      THEN before[3] + BINOMIAL_TABLE[n][k] ELSE before[3]
         IN <<n, k, added>>

\* multiplier = face * (face-1) * ... * (face-num_per_group+1)
RECURSIVE group_multiplier(_, _, _)
group_multiplier(face, j, num_per_group) ==
    IF j >= num_per_group THEN 1
    ELSE (face - j) * group_multiplier(face, j + 1, num_per_group)

\* divider = 2 * 3 * ... * num_per_group
RECURSIVE group_divider(_, _)
group_divider(j, num_per_group) ==
    IF j >= num_per_group THEN 1
    ELSE (j + 1) * group_divider(j + 1, num_per_group)

\* for i in (0..num_groups).rev(): scan, then coord *= multiplier / divider
RECURSIVE sub_permutation_groups(_, _, _, _)
sub_permutation_groups(positions, i, num_per_group, coord) ==
    IF i < 0 THEN coord
    ELSE LET face == num_per_group * (i + 1)
             scanned == coord + sub_permutation_scan(positions, num_per_group, face,
                                                     ALen(positions) - 1)[3]
             factor == group_multiplier(face, 0, num_per_group)
                           \div group_divider(1, num_per_group)
         IN sub_permutation_groups(positions, i - 1, num_per_group,
                                   scanned * factor)

\* Mutant: the groups are combined without the per-group multiplication.
sub_permutation_coord_nomul(positions, num_groups, num_per_group) ==
    sub_permutation_scan(positions, num_per_group, num_per_group,
                         ALen(positions) - 1)[3]
        + sub_permutation_scan(positions, num_per_group, 2 * num_per_group,
                               ALen(positions) - 1)[3]

sub_permutation_coord(positions, num_groups, num_per_group) ==
    sub_permutation_groups(positions, num_groups - 1, num_per_group, 0)

face_position_to_coord(positions) == sub_permutation_coord(positions, 4, 3)

\* get_sub_coords::<N>: the factors are [70, 495] for N = 4, [20, 84, 220] for
\* N = 3; sub_coords[i] = coord % factors[i]; coord /= factors[i].
SubFactors(N) == IF N = 4 THEN Arr(<<70, 495>>) ELSE Arr(<<20, 84, 220>>)

RECURSIVE get_sub_coords_loop(_, _, _, _, _)
get_sub_coords_loop(N, num_levels, sub_coords, coord, i) ==
    IF i > num_levels - 1 THEN sub_coords
    ELSE get_sub_coords_loop(N, num_levels,
                             [sub_coords EXCEPT ![i] = coord % SubFactors(N)[i]],
                             coord \div SubFactors(N)[i], i + 1)

get_sub_coords(N, coord) ==
    LET num_levels == (NUM_CENTRES \div N) - 1
    IN get_sub_coords_loop(N, num_levels, [i \in 0..(num_levels - 1) |-> 0], coord, 0)

\* invert_single_face_centre_coord: pieces start as u8::MAX; for j in
\* 0..num_positions_to_fill: n = num_positions_to_fill - j - 1; if coord >=
\* C(n, num_left - 1) subtract it, else place fill_piece at j and decrement
\* num_left; break when num_left < 1.
RECURSIVE invert_single_loop(_, _, _, _, _, _)
invert_single_loop(pieces, coord, num_left, num_positions_to_fill, fill_piece, j) ==
    IF j > num_positions_to_fill - 1 THEN pieces
    ELSE LET n == num_positions_to_fill - j - 1
             n_choose_k == BINOMIAL_TABLE[n][num_left - 1]
             placed == ~(coord >= n_choose_k)
             coord2 == IF placed THEN coord ELSE coord - n_choose_k
             pieces2 == IF placed THEN [pieces EXCEPT ![j] = fill_piece] ELSE pieces
             left2 == IF placed THEN num_left - 1 ELSE num_left
         IN IF left2 < 1 THEN pieces2
            ELSE invert_single_loop(pieces2, coord2, left2,
                                    num_positions_to_fill, fill_piece, j + 1)

invert_single_face_centre_coord(coord, num_pieces_to_place, num_positions_to_fill, fill_piece) ==
    invert_single_loop([j \in 0..(num_positions_to_fill - 1) |-> U8_MAX],
                       coord, num_pieces_to_place, num_positions_to_fill, fill_piece, 0)

\* for j in 0..NUM_CENTRES: if state[j] == 0 { piece = pieces.pop();
\* if piece != u8::MAX { state[j] = piece } }.  pieces is an array here and
\* top the number of elements still on it.
RECURSIVE place_pieces(_, _, _, _)
place_pieces(state, pieces, top, j) ==
    IF j > NUM_CENTRES - 1 THEN state
    ELSE IF state[j] = 0
         THEN LET piece == pieces[top - 1]
              IN place_pieces(IF piece # U8_MAX THEN [state EXCEPT ![j] = piece]
                              ELSE state,
                              pieces, top - 1, j + 1)
         ELSE place_pieces(state, pieces, top, j + 1)

RECURSIVE invert_sub_levels(_, _, _, _, _)
invert_sub_levels(N, state, sub_coords, num_levels, i) ==
    IF i > num_levels - 1 THEN state
    ELSE LET pieces == invert_single_face_centre_coord(
                           sub_coords[num_levels - 1 - i], N,
                           NUM_CENTRES - (N * i), NUM_CENTRES - (N * (i + 1)))
         IN invert_sub_levels(N,
                              place_pieces(state, pieces, NUM_CENTRES - (N * i), 0),
                              sub_coords, num_levels, i + 1)

invert_coord_to_sub_permutation(N, coord) ==
    invert_sub_levels(N, [j \in 0..(NUM_CENTRES - 1) |-> 0],
                      get_sub_coords(N, coord), (NUM_CENTRES \div N) - 1, 0)

invert_coord_to_face_positions(coord) == invert_coord_to_sub_permutation(3, coord)

(***************************************************************************)
(* coordinates.rs: edges across faces                                      *)
(***************************************************************************)
ACROSS_POSITIONS == Arr(<<0, 4, 8, 1, 5, 9, 2, 6, 10, 3, 7, 11>>)
ACROSS_ORDERING == Arr(<<0, 3, 6, 9, 1, 4, 7, 10, 2, 5, 8, 11>>)
ACROSS_LABELS == Arr(<<0, 1, 2, 0, 1, 2, 0, 1, 2, 0, 1, 2>>)

perm_across_face_coord(edges) ==
    sub_permutation_coord(
        apply_raw_permutation(apply_raw_permutation(ACROSS_POSITIONS, edges),
                              ACROSS_ORDERING),
        3, 4)

invert_coord_to_perm_across_face(coord) ==
    LET state == apply_raw_permutation(invert_coord_to_sub_permutation(4, coord),
                                       ACROSS_POSITIONS)
    IN apply_raw_permutation(ACROSS_LABELS, state)

(***************************************************************************)
(* coordinates.rs: enum Coordinate                                         *)
(***************************************************************************)
\* Mutant: the iterator lists all six variants.
CoordinateIter_all ==
    <<"CornerState", "EdgeInFace", "EdgeAcrossFaces", "UpCentre", "DownCentre", "TripleCentre">>

\* Coordinate::iter() lists five of the six variants.
CoordinateIter == <<"CornerState", "EdgeInFace", "EdgeAcrossFaces", "UpCentre", "DownCentre">>

AllCoordinates == {"CornerState", "EdgeInFace", "EdgeAcrossFaces", "UpCentre",
                   "DownCentre", "TripleCentre"}

state_to_coord(coord_type, state) ==
    CASE coord_type = "CornerState" -> corner_state_to_coord(state)
      [] coord_type = "EdgeAcrossFaces" -> perm_across_face_coord(state)
      [] OTHER -> face_position_to_coord(state)

coord_to_state(coord_type, coord) ==
    CASE coord_type = "CornerState" -> invert_coord_to_corner_state(coord)
      [] coord_type = "EdgeAcrossFaces" -> invert_coord_to_perm_across_face(coord)
      [] OTHER -> invert_coord_to_face_positions(coord)

get_size(coord_type) ==
    CASE coord_type = "CornerState" -> NUM_CORNER_STATES
      [] coord_type = "EdgeAcrossFaces" -> NUM_ACROSS_FACE_PERMS
      [] OTHER -> NUM_FACE_PIECE_PERMS

(***************************************************************************)
(* movedefs.rs: faces, turns and the raw turn catalog                      *)
(***************************************************************************)
\* Face::get_all_faces()
get_all_faces == <<"U", "F", "BL", "BR", "L", "R", "B", "D">>

\* Face::get_up_faces()
get_up_faces == <<"U", "F", "BL", "BR">>

\* Face::get_down_faces()
get_down_faces == <<"L", "R", "B", "D">>

Faces == {get_all_faces[i] : i \in 1..Len(get_all_faces)}

RAW_TURN_U ==
    [corner_permutation |-> Arr(<<2, 0, 1, 3, 4, 5>>),
     corner_orientation |-> 0,
     edges |-> Arr(<<2, 0, 1, 3, 4, 5, 6, 7, 8, 9, 10, 11>>),
     up_centres |-> Arr(<<2, 0, 1, 3, 4, 5, 6, 7, 8, 9, 10, 11>>),
     down_centres |-> Arr(<<6, 7, 2, 0, 1, 5, 3, 4, 8, 9, 10, 11>>),
     triple_centres |-> Arr(<<0, 1, 2, 3, 4, 5, 6, 7, 8, 9, 10, 11>>)]

\* corner_orientation 0b001001
RAW_TURN_F ==
    [corner_permutation |-> Arr(<<0, 1, 5, 3, 2, 4>>),
     corner_orientation |-> 9,
     edges |-> Arr(<<0, 1, 2, 3, 4, 5, 6, 7, 8, 11, 9, 10>>),
     up_centres |-> Arr(<<0, 1, 2, 3, 4, 5, 6, 7, 8, 11, 9, 10>>),
     down_centres |-> Arr(<<0, 1, 2, 8, 4, 7, 6, 9, 10, 5, 3, 11>>),
     triple_centres |-> Arr(<<0, 1, 2, 3, 4, 5, 6, 7, 8, 9, 10, 11>>)]

\* corner_orientation 0b100100
RAW_TURN_BL ==
    [corner_permutation |-> Arr(<<3, 1, 2, 5, 4, 0>>),
     corner_orientation |-> 36,
     edges |-> Arr(<<0, 1, 2, 5, 3, 4, 6, 7, 8, 9, 10, 11>>),
     up_centres |-> Arr(<<0, 1, 2, 5, 3, 4, 6, 7, 8, 9, 10, 11>>),
     down_centres |-> Arr(<<0, 11, 9, 3, 4, 5, 2, 7, 1, 6, 10, 8>>),
     triple_centres |-> Arr(<<0, 1, 2, 3, 4, 5, 6, 7, 8, 9, 10, 11>>)]

\* corner_orientation 0b010010
RAW_TURN_BR ==
    [corner_permutation |-> Arr(<<0, 4, 2, 1, 3, 5>>),
     corner_orientation |-> 18,
     edges |-> Arr(<<0, 1, 2, 3, 4, 5, 8, 6, 7, 9, 10, 11>>),
     up_centres |-> Arr(<<0, 1, 2, 3, 4, 5, 8, 6, 7, 9, 10, 11>>),
     down_centres |-> Arr(<<5, 1, 4, 3, 10, 11, 6, 7, 8, 9, 2, 0>>),
     triple_centres |-> Arr(<<0, 1, 2, 3, 4, 5, 6, 7, 8, 9, 10, 11>>)]

\* corner_orientation 0b101000
RAW_TURN_L ==
    [corner_permutation |-> Arr(<<5, 1, 0, 3, 4, 2>>),
     corner_orientation |-> 40,
     edges |-> Arr(<<0, 1, 4, 3, 9, 5, 6, 7, 8, 2, 10, 11>>),
     up_centres |-> Arr(<<4, 1, 3, 11, 9, 5, 6, 7, 8, 0, 10, 2>>),
     down_centres |-> Arr(<<0, 1, 2, 3, 4, 5, 8, 6, 7, 9, 10, 11>>),
     triple_centres |-> Arr(<<0, 3, 2, 9, 4, 5, 6, 7, 8, 1, 10, 11>>)]

\* corner_orientation 0b011000
RAW_TURN_R ==
    [corner_permutation |-> Arr(<<0, 2, 4, 3, 1, 5>>),
     corner_orientation |-> 24,
     edges |-> Arr(<<0, 10, 2, 3, 4, 5, 1, 7, 8, 9, 6, 11>>),
     up_centres |-> Arr(<<0, 9, 10, 3, 4, 5, 2, 7, 1, 8, 6, 11>>),
     down_centres |-> Arr(<<0, 1, 2, 5, 3, 4, 6, 7, 8, 9, 10, 11>>),
     triple_centres |-> Arr(<<10, 1, 2, 3, 4, 5, 6, 0, 8, 9, 7, 11>>)]

\* corner_orientation 0b110000
RAW_TURN_B ==
    [corner_permutation |-> Arr(<<1, 3, 2, 0, 4, 5>>),
     corner_orientation |-> 48,
     edges |-> Arr(<<7, 1, 2, 0, 4, 5, 6, 3, 8, 9, 10, 11>>),
     up_centres |-> Arr(<<6, 7, 2, 1, 4, 0, 5, 3, 8, 9, 10, 11>>),
     down_centres |-> Arr(<<2, 0, 1, 3, 4, 5, 6, 7, 8, 9, 10, 11>>),
     triple_centres |-> Arr(<<0, 1, 2, 3, 6, 5, 11, 7, 8, 9, 10, 4>>)]

RAW_TURN_D ==
    [corner_permutation |-> Arr(<<0, 1, 2, 4, 5, 3>>),
     corner_orientation |-> 0,
     edges |-> Arr(<<0, 1, 2, 3, 4, 8, 6, 7, 11, 9, 10, 5>>),
     up_centres |-> Arr(<<0, 1, 2, 3, 7, 8, 6, 10, 11, 9, 4, 5>>),
     down_centres |-> Arr(<<0, 1, 2, 3, 4, 5, 6, 7, 8, 11, 9, 10>>),
     triple_centres |-> Arr(<<0, 1, 8, 3, 4, 2, 6, 7, 5, 9, 10, 11>>)]

\* RawTurn::get(face)
RawTurnGet(face) ==
    CASE face = "U" -> RAW_TURN_U
      [] face = "F" -> RAW_TURN_F
      [] face = "BL" -> RAW_TURN_BL
      [] face = "BR" -> RAW_TURN_BR
      [] face = "L" -> RAW_TURN_L
      [] face = "R" -> RAW_TURN_R
      [] face = "B" -> RAW_TURN_B
      [] face = "D" -> RAW_TURN_D

\* RawTurn::get_effect for the effect type of a coordinate family
\* (Coordinate::get_turn_effect_type): both edge families read `edges`.
get_effect(turn, coord_type) ==
    CASE coord_type = "EdgeInFace" -> turn.edges
      [] coord_type = "EdgeAcrossFaces" -> turn.edges
      [] coord_type = "UpCentre" -> turn.up_centres
      [] coord_type = "DownCentre" -> turn.down_centres
      [] coord_type = "TripleCentre" -> turn.triple_centres

\* Face::get_primary_face
get_primary_face(face) ==
    CASE face = "L" -> "BR"
      [] face = "R" -> "BL"
      [] face = "B" -> "F"
      [] face = "D" -> "U"
      [] OTHER -> face

\* Turn::new(face, invert)
Turn(face, invert) == [face |-> face, invert |-> invert]

\* Mutant: the faces are visited from the last to the first.
RECURSIVE get_allowed_turns_for_faces_reversed(_)
get_allowed_turns_for_faces_reversed(faces) ==
    IF faces = <<>> THEN <<>>
    ELSE get_allowed_turns_for_faces_reversed(Tail(faces))
             \o <<Turn(Head(faces), FALSE), Turn(Head(faces), TRUE)>>

\* Turn::get_allowed_turns_for_faces: for each face, (face, false) then (face, true).
RECURSIVE get_allowed_turns_for_faces(_)
get_allowed_turns_for_faces(faces) ==
    IF faces = <<>> THEN <<>>
    ELSE <<Turn(Head(faces), FALSE), Turn(Head(faces), TRUE)>>
             \o get_allowed_turns_for_faces(Tail(faces))

\* Turn::get_all_turns
get_all_turns == get_allowed_turns_for_faces(get_all_faces)

AllTurns == {get_all_turns[i] : i \in 1..Len(get_all_turns)}

(***************************************************************************)
(* state.rs: orientation kernels                                           *)
(***************************************************************************)
\* Bitwise xor of two non-negative numbers (u8 `^`).
RECURSIVE BitXor(_, _)
BitXor(a, b) ==
    IF a = 0 THEN b
    ELSE IF b = 0 THEN a
    ELSE Xor(a % 2, b % 2) + 2 * BitXor(a \div 2, b \div 2)

\* flips[i] = bit (5 - i) of the state, for i in 0..5.
RECURSIVE Pow2(_)
Pow2(n) == IF n = 0 THEN 1 ELSE 2 * Pow2(n - 1)

\* Mutant: the top bit (corner 0) is not read.
flip_num_to_bool_array_low_five(state) ==
    [i \in 0..5 |-> i > 0 /\ ((state \div Pow2(5 - i)) % 2) = 1]

flip_num_to_bool_array(state) ==
    [i \in 0..5 |-> ((state \div Pow2(5 - i)) % 2) = 1]

\* num = num * 2 + flipped, over the array in order.
RECURSIVE flip_bool_array_loop(_, _, _)
flip_bool_array_loop(state, i, num) ==
    IF i > ALen(state) - 1 THEN num
    ELSE flip_bool_array_loop(state, i + 1, num * 2 + (IF state[i] THEN 1 ELSE 0))

flip_bool_array_to_num(state) == flip_bool_array_loop(state, 0, 0)

\* Mutant: the turn's orientation delta is not applied.
apply_orientation_nodelta(state, perm_effect, orient_effect) ==
    flip_bool_array_to_num(
        apply_raw_permutation(flip_num_to_bool_array(state), perm_effect))

apply_orientation(state, perm_effect, orient_effect) ==
    BitXor(flip_bool_array_to_num(
               apply_raw_permutation(flip_num_to_bool_array(state), perm_effect)),
           orient_effect)

\* for i in (1..state.len()).rev(): flip = orientation % 2; orientation /= 2;
\* first_flip ^= flip; state[i] ^= flip.  Then state[0] ^= first_flip.
RECURSIVE apply_full_corner_loop(_, _, _, _)
apply_full_corner_loop(state, orientation, first_flip, i) ==
    IF i < 1 THEN [state EXCEPT ![0] = BitXor(state[0], first_flip)]
    ELSE LET flip == orientation % 2
         IN apply_full_corner_loop([state EXCEPT ![i] = BitXor(state[i], flip)],
                                   orientation \div 2, Xor(first_flip, flip), i - 1)

\* Mutant: the orientation delta is dropped, only the permutation is applied.
apply_full_corner_noflip(state, perm_effect, orient_effect) ==
    apply_raw_permutation(state, perm_effect)

\* Mutant: slot 0 is permuted but never flipped.
apply_full_corner_first_kept(state, perm_effect, orient_effect) ==
    LET permuted == apply_raw_permutation(state, perm_effect)
    IN [apply_full_corner_loop(permuted, orient_effect, 0, ALen(state) - 1)
            EXCEPT ![0] = permuted[0]]

apply_full_corner(state, perm_effect, orient_effect) ==
    apply_full_corner_loop(apply_raw_permutation(state, perm_effect),
                           orient_effect, 0, ALen(state) - 1)

\* movetables.rs: apply_turn_to_state
apply_turn_to_state(state, turn, coord_type) ==
    IF coord_type = "CornerState"
    THEN apply_full_corner(state, turn.corner_permutation, turn.corner_orientation)
    ELSE apply_raw_permutation(state, get_effect(turn, coord_type))

(***************************************************************************)
(* movetables.rs: the content of a populated move table                    *)
(*                                                                         *)
(* MoveTable::populate is modelled step by step by the actions of          *)
(* SpecPopulate below.  The tables have up to 369 600 entries per face, so  *)
(* the states that use a finished table read its entries through           *)
(* table_entry / inverse_table_entry: the cycle populate computes when it  *)
(* reaches that coordinate as start_coord, cycle[1] for `table` and        *)
(* cycle[2] for `inverse_table`.  MoveTableAgreesWithRawTurn and           *)
(* InverseTableAgreesWithRawTurn check the populate loop against them.     *)
(***************************************************************************)
\* cycle = [start_coord, coord after one turn, coord after two turns]
populate_cycle(coord_type, face, start_coord) ==
    LET turn == RawTurnGet(face)
        s1 == apply_turn_to_state(coord_to_state(coord_type, start_coord), turn, coord_type)
        s2 == apply_turn_to_state(s1, turn, coord_type)
    IN Arr(<<start_coord, state_to_coord(coord_type, s1), state_to_coord(coord_type, s2)>>)

table_entry(coord_type, face, coord) ==
    state_to_coord(coord_type,
        apply_turn_to_state(coord_to_state(coord_type, coord), RawTurnGet(face), coord_type))

inverse_table_entry(coord_type, face, coord) ==
    LET turn == RawTurnGet(face)
    IN state_to_coord(coord_type,
           apply_turn_to_state(
               apply_turn_to_state(coord_to_state(coord_type, coord), turn, coord_type),
               turn, coord_type))

\* Mutant: the invert flag is ignored, the forward table is always read.
apply_move_to_coord_forward_only(coord, coord_type, turn) ==
    table_entry(coord_type, turn.face, coord)

\* MoveTable::apply_move_to_coord: inverse_table if turn.invert, else table.
apply_move_to_coord(coord, coord_type, turn) ==
    IF turn.invert
    THEN inverse_table_entry(coord_type, turn.face, coord)
    ELSE table_entry(coord_type, turn.face, coord)

(***************************************************************************)
(* state.rs: RawState                                                      *)
(***************************************************************************)
RawState_solved ==
    [corners |-> Arr(<<0, 1, 2, 3, 4, 5>>),
     corner_orientation |-> 0,
     edges |-> Arr(<<0, 1, 2, 3, 4, 5, 6, 7, 8, 9, 10, 11>>),
     up_centres |-> Arr(<<0, 0, 0, 3, 3, 3, 6, 6, 6, 9, 9, 9>>),
     down_centres |-> Arr(<<0, 0, 0, 3, 3, 3, 6, 6, 6, 9, 9, 9>>)]

\* One pass of the body of RawState::apply (the five kernel calls).
RawState_apply_once(self, face) ==
    LET m == RawTurnGet(face)
    IN [corners |-> apply_raw_permutation(self.corners, m.corner_permutation),
        corner_orientation |->
            apply_orientation(self.corner_orientation, m.corner_permutation,
                              m.corner_orientation),
        edges |-> apply_raw_permutation(self.edges, m.edges),
        up_centres |-> apply_raw_permutation(self.up_centres, m.up_centres),
        down_centres |-> apply_raw_permutation(self.down_centres, m.down_centres)]

\* Mutant: the extra pass of an inverted turn is left out.
RawState_apply_noinvert(self, turn) == RawState_apply_once(self, turn.face)

\* RawState::apply: one pass, and if turn.invert a second pass of the same face.
RawState_apply(self, turn) ==
    IF turn.invert
    THEN RawState_apply_once(RawState_apply_once(self, turn.face), turn.face)
    ELSE RawState_apply_once(self, turn.face)

\* RawState::get_corner_coord: slot i (5 down to 1) takes the next low bit of
\* corner_orientation, slot 0 the xor of those five bits.
RECURSIVE get_corner_coord_loop(_, _, _, _)
get_corner_coord_loop(state, orientation, first_flip, i) ==
    IF i < 1 THEN [state EXCEPT ![0] = state[0] * 2 + first_flip]
    ELSE LET flip == orientation % 2
         IN get_corner_coord_loop([state EXCEPT ![i] = state[i] * 2 + flip],
                                  orientation \div 2, Xor(first_flip, flip), i - 1)

RawState_get_corner_coord(self) ==
    state_to_coord("CornerState",
        get_corner_coord_loop(self.corners, self.corner_orientation, 0, NUM_CORNERS - 1))

\* RawState::to_coords
RawState_to_coords(self) ==
    [corners |-> RawState_get_corner_coord(self),
     edges_within_faces |-> state_to_coord("EdgeInFace", self.edges),
     edges_across_faces |-> state_to_coord("EdgeAcrossFaces", self.edges),
     up_centres |-> state_to_coord("UpCentre", self.up_centres),
     down_centres |-> state_to_coord("DownCentre", self.down_centres)]

(***************************************************************************)
(* state.rs: CoordState                                                    *)
(***************************************************************************)
CoordState_solved ==
    [corners |-> 0, edges_within_faces |-> 0, edges_across_faces |-> 0,
     up_centres |-> 0, down_centres |-> 0]

\* CoordState::apply
CoordState_apply(self, turn) ==
    [corners |-> apply_move_to_coord(self.corners, "CornerState", turn),
     edges_within_faces |-> apply_move_to_coord(self.edges_within_faces, "EdgeInFace", turn),
     edges_across_faces |-> apply_move_to_coord(self.edges_across_faces, "EdgeAcrossFaces", turn),
     up_centres |-> apply_move_to_coord(self.up_centres, "UpCentre", turn),
     down_centres |-> apply_move_to_coord(self.down_centres, "DownCentre", turn)]

\* CoordState::get_corner_permutation
CoordState_get_corner_permutation(self) ==
    LET st == coord_to_state("CornerState", self.corners)
    IN [i \in DOMAIN st |-> st[i] \div 2]

\* for _ in 0..NUM_CORNERS: first_flip ^= temp % 2; temp /= 2
RECURSIVE first_flip_loop(_, _, _)
first_flip_loop(temp, first_flip, n) ==
    IF n = 0 THEN first_flip
    ELSE first_flip_loop(temp \div 2, Xor(first_flip, temp % 2), n - 1)

\* Mutant: the bit of corner 0 is not rebuilt.
CoordState_get_corner_orientation_five_bits(self) == self.corners \div 360

\* CoordState::get_corner_orientation: (corners / 360) + (first_flip << 5)
CoordState_get_corner_orientation(self) ==
    LET orientation == self.corners \div 360
    IN (orientation + first_flip_loop(orientation, 0, NUM_CORNERS) * 32) % 256

\* Mutant: the EdgeAcrossFaces offsets are not added.
CoordState_get_edges_noadd(self) ==
    coord_to_state("EdgeInFace", self.edges_within_faces)

\* CoordState::get_edges: state[i] += across_face[i]
CoordState_get_edges(self) ==
    LET state == coord_to_state("EdgeInFace", self.edges_within_faces)
        across_face == coord_to_state("EdgeAcrossFaces", self.edges_across_faces)
    IN [i \in DOMAIN state |-> state[i] + across_face[i]]

\* CoordState::to_raw
CoordState_to_raw(self) ==
    [corners |-> CoordState_get_corner_permutation(self),
     corner_orientation |-> CoordState_get_corner_orientation(self),
     edges |-> CoordState_get_edges(self),
     up_centres |-> coord_to_state("UpCentre", self.up_centres),
     down_centres |-> coord_to_state("DownCentre", self.down_centres)]

(***************************************************************************)
(* Variables                                                               *)
(***************************************************************************)
VARIABLES
    \* codec calls: Coordinate::coord_to_state then Coordinate::state_to_coord
    cd_family, cd_coord, cd_state, cd_out, cd_pc,
    \* MoveTable::populate: the loop position, the decoded state and the tables
    mt_coord_type, mt_start_coord, mt_face, mt_state, mt_table, mt_inverse_table,
    \* a RawState and a CoordState taken through the same turns
    raw, coords, sequence, sq_pc,
    \* SimplePruningTable::populate_coordinate: its arguments and locals
    pt_coord_type, pt_faces, pt_move_table, pt_table, pt_distance, pt_remaining,
    pt_fill_list, pt_pc,
    \* search_phase_1: its arguments and its result
    sr_state, sr_pruning_tables, sr_limit, sr_solution, sr_pc,
    \* precompute_solved_triple_centre_coords: the loop position, the down
    \* centres built for the last corner coordinate and the entry written
    tc_coord, tc_down_centres, tc_item, tc_pc,
    \* apply_raw_permutation: state, orig_state, effect and the loop position
    ap_state, ap_orig_state, ap_effect, ap_orient_effect, ap_i, ap_pc,
    \* MoveTables::generate and a call of MoveTables::apply_move_to_coord
    mg_tables, mg_next, mg_coord_type, mg_coord, mg_turn, mg_result, mg_pc,
    \* MoveTables::load: the words of movetables.dat and the read position
    ld_file, ld_pos

cd_vars == <<cd_family, cd_coord, cd_state, cd_out, cd_pc>>
mt_vars == <<mt_coord_type, mt_start_coord, mt_face, mt_state, mt_table, mt_inverse_table>>
sq_vars == <<raw, coords, sequence, sq_pc>>
pt_vars == <<pt_coord_type, pt_faces, pt_move_table, pt_table, pt_distance, pt_remaining,
             pt_fill_list, pt_pc>>
sr_vars == <<sr_state, sr_pruning_tables, sr_limit, sr_solution, sr_pc>>
tc_vars == <<tc_coord, tc_down_centres, tc_item, tc_pc>>
ap_vars == <<ap_state, ap_orig_state, ap_effect, ap_orient_effect, ap_i, ap_pc>>
mg_vars == <<mg_tables, mg_next, mg_coord_type, mg_coord, mg_turn, mg_result, mg_pc,
             ld_file, ld_pos>>
vars == <<cd_vars, mt_vars, sq_vars, pt_vars, sr_vars, tc_vars, ap_vars, mg_vars>>

\* The parts of the state a specification does not use stay at these values.
CdIdle ==
    /\ cd_family = "CornerState" /\ cd_coord = 0 /\ cd_state = <<>>
    /\ cd_out = 0 /\ cd_pc = "idle"
MtIdle ==
    /\ mt_coord_type = "CornerState" /\ mt_start_coord = 0 /\ mt_face = 0
    /\ mt_state = <<>> /\ mt_table = <<>> /\ mt_inverse_table = <<>>
SqIdle ==
    /\ raw = RawState_solved /\ coords = CoordState_solved /\ sequence = <<>>
    /\ sq_pc = "idle"
PtIdle ==
    /\ pt_coord_type = "CornerState" /\ pt_faces = <<>> /\ pt_move_table = <<>>
    /\ pt_table = <<>> /\ pt_distance = 0 /\ pt_remaining = 0
    /\ pt_fill_list = {} /\ pt_pc = "idle"
SrIdle ==
    /\ sr_state = CoordState_solved /\ sr_pruning_tables = <<>> /\ sr_limit = 0
    /\ sr_solution = <<>> /\ sr_pc = "idle"
TcIdle ==
    /\ tc_coord = 0 /\ tc_down_centres = <<>> /\ tc_item = 0 /\ tc_pc = "idle"
ApIdle ==
    /\ ap_state = <<>> /\ ap_orig_state = <<>> /\ ap_effect = <<>> /\ ap_i = 0
    /\ ap_orient_effect = 0 /\ ap_pc = "idle"
MgIdle ==
    /\ mg_tables = <<>> /\ mg_next = 0 /\ mg_coord_type = "CornerState"
    /\ mg_coord = 0 /\ mg_turn = [face |-> "None", invert |-> FALSE]
    /\ mg_result = 0 /\ mg_pc = "idle"
    /\ ld_file = [exists |-> FALSE, words |-> <<>>] /\ ld_pos = 0

(***************************************************************************)
(* SpecCodec: one coordinate decoded and encoded again                     *)
(***************************************************************************)
\* Width of the coordinate windows the codec is exercised on.
MaxCoord == 200

\* Per family: the first and last MaxCoord coordinates of the range and
\* MaxCoord coordinates spread evenly over it.
SampleCoords(coord_type) ==
    LET size == get_size(coord_type)
    IN (0..(MaxCoord - 1))
         \cup ((size - MaxCoord)..(size - 1))
         \cup {k * (size \div MaxCoord) + (k % 7) : k \in 0..(MaxCoord - 1)}

CodecInit ==
    /\ cd_family \in AllCoordinates
    /\ cd_coord \in SampleCoords(cd_family)
    /\ cd_state = <<>>
    /\ cd_out = 0
    /\ cd_pc = "start"
    /\ MtIdle /\ SqIdle /\ PtIdle /\ SrIdle /\ TcIdle /\ ApIdle /\ MgIdle

\* Coordinate::coord_to_state
Decode ==
    /\ cd_pc = "start"
    /\ cd_state' = coord_to_state(cd_family, cd_coord)
    /\ cd_pc' = "decoded"
    /\ UNCHANGED <<cd_family, cd_coord, cd_out, mt_vars, sq_vars, pt_vars, sr_vars,
                 tc_vars, ap_vars, mg_vars>>

\* Coordinate::state_to_coord
Encode ==
    /\ cd_pc = "decoded"
    /\ cd_out' = state_to_coord(cd_family, cd_state)
    /\ cd_pc' = "encoded"
    /\ UNCHANGED <<cd_family, cd_coord, cd_state, mt_vars, sq_vars, pt_vars, sr_vars,
                 tc_vars, ap_vars, mg_vars>>

CodecNext == Decode \/ Encode

SpecCodec == CodecInit /\ [][CodecNext]_vars

\* C1: for every family and every coordinate of its range, encoding the
\* decoded state gives the coordinate back.
CodecRoundTrip == cd_pc = "encoded" => cd_out = cd_coord

\* A coordinate at the top of the EdgeAcrossFaces range has made the round trip.
CodecRoundTripWitness ==
    /\ cd_pc = "encoded" /\ cd_family = "EdgeAcrossFaces"
    /\ cd_coord = NUM_ACROSS_FACE_PERMS - 1 /\ cd_out = cd_coord
    /\ cd_state = Arr(<<2, 1, 0, 2, 1, 0, 2, 1, 0, 2, 1, 0>>)

(***************************************************************************)
(* SpecPopulate: MoveTable::new(coord_type) = init() then populate()       *)
(*                                                                         *)
(* A table of one face is a function from the coordinates written so far;  *)
(* a coordinate outside its domain still holds the u32::MAX of init().     *)
(***************************************************************************)
\* Number of start coordinates the populate loop is followed for.
MaxStart == 6

Entry(table, coord) == IF coord \in DOMAIN table THEN table[coord] ELSE U32_SENTINEL

SetEntry(table, coord, value) ==
    [c \in (DOMAIN table) \cup {coord} |-> IF c = coord THEN value ELSE table[c]]

\* Mutant: the inverse table is written in the order of the forward table.
add_cycle_to_table_same_order(table, inv_table, cycle) ==
    LET t1 == SetEntry(table, cycle[0], cycle[1])
        t2 == SetEntry(t1, cycle[1], cycle[2])
        t3 == SetEntry(t2, cycle[2], cycle[0])
        i1 == SetEntry(inv_table, cycle[0], cycle[1])
        i2 == SetEntry(i1, cycle[1], cycle[2])
        i3 == SetEntry(i2, cycle[2], cycle[0])
    IN <<t3, i3>>

\* add_cycle_to_table: the six writes in the order of the source; the result
\* is the pair <<table, inv_table>>.
add_cycle_to_table(table, inv_table, cycle) ==
    LET t1 == SetEntry(table, cycle[0], cycle[1])
        t2 == SetEntry(t1, cycle[1], cycle[2])
        t3 == SetEntry(t2, cycle[2], cycle[0])
        i1 == SetEntry(inv_table, cycle[0], cycle[2])
        i2 == SetEntry(i1, cycle[2], cycle[1])
        i3 == SetEntry(i2, cycle[1], cycle[0])
    IN <<t3, i3>>

\* Mutant: the third application, which brings the state back, is left out.
populate_third_turn_skipped(state, turn, coord_type) == state

\* The third apply_turn_to_state of the loop body of populate.
populate_third_turn(state, turn, coord_type) ==
    apply_turn_to_state(state, turn, coord_type)

\* MoveTable::init, then the first start_coord is decoded.
PopulateInit ==
    /\ mt_coord_type \in AllCoordinates
    /\ mt_start_coord = 0
    /\ mt_face = 1
    /\ mt_state = coord_to_state(mt_coord_type, 0)
    /\ mt_table = [f \in Faces |-> <<>>]
    /\ mt_inverse_table = [f \in Faces |-> <<>>]
    /\ CdIdle /\ SqIdle /\ PtIdle /\ SrIdle /\ TcIdle /\ ApIdle /\ MgIdle

PopulateRunning ==
    /\ mt_face \in 1..Len(get_all_faces)
    /\ mt_start_coord < get_size(mt_coord_type)
    /\ mt_start_coord < MaxStart

\* The step to the next face, or to the next start_coord, which is decoded.
PopulateAdvance(state_after) ==
    IF mt_face < Len(get_all_faces)
    THEN /\ mt_face' = mt_face + 1
         /\ mt_start_coord' = mt_start_coord
         /\ mt_state' = state_after
    ELSE /\ mt_face' = 1
         /\ mt_start_coord' = mt_start_coord + 1
         /\ mt_state' = IF mt_start_coord + 1 < get_size(mt_coord_type)
                        THEN coord_to_state(mt_coord_type, mt_start_coord + 1)
                        ELSE state_after

\* if self.table[&face][start_coord] < u32::MAX { continue }
PopulateSkip ==
    /\ PopulateRunning
    /\ Entry(mt_table[get_all_faces[mt_face]], mt_start_coord) # U32_SENTINEL
    /\ PopulateAdvance(mt_state)
    /\ UNCHANGED <<mt_coord_type, mt_table, mt_inverse_table, cd_vars, sq_vars, pt_vars, sr_vars,
                 tc_vars, ap_vars, mg_vars>>

\* The rest of the loop body: the orbit of start_coord and add_cycle_to_table.
PopulateCycle ==
    /\ PopulateRunning
    /\ Entry(mt_table[get_all_faces[mt_face]], mt_start_coord) = U32_SENTINEL
    /\ LET face == get_all_faces[mt_face]
           turn == RawTurnGet(face)
           s1 == apply_turn_to_state(mt_state, turn, mt_coord_type)
           s2 == apply_turn_to_state(s1, turn, mt_coord_type)
           s3 == populate_third_turn(s2, turn, mt_coord_type)
           cycle == Arr(<<mt_start_coord, state_to_coord(mt_coord_type, s1),
                          state_to_coord(mt_coord_type, s2)>>)
           written == add_cycle_to_table(mt_table[face], mt_inverse_table[face], cycle)
       IN /\ mt_table' = [mt_table EXCEPT ![face] = written[1]]
          /\ mt_inverse_table' = [mt_inverse_table EXCEPT ![face] = written[2]]
          /\ PopulateAdvance(s3)
    /\ UNCHANGED <<mt_coord_type, cd_vars, sq_vars, pt_vars, sr_vars,
                 tc_vars, ap_vars, mg_vars>>

PopulateNext == PopulateSkip \/ PopulateCycle

SpecPopulate == PopulateInit /\ [][PopulateNext]_vars

\* The (face, coordinate) pairs the loop has passed: every coordinate below
\* start_coord, and start_coord itself for the faces before the current one.
PopulatePassed(f, c) ==
    \/ c < mt_start_coord
    \/ c = mt_start_coord /\ \E k \in 1..(mt_face - 1) : get_all_faces[k] = f

\* C2: in a move table, inverse_table[F][table[F][c]] = c and three
\* applications of table[F] lead back to c, for every entry written; and no
\* entry the loop has passed is left at the u32::MAX sentinel.
MoveTableRoundTrip ==
    \A f \in Faces :
        /\ \A c \in DOMAIN mt_table[f] :
              /\ mt_table[f][c] # U32_SENTINEL
              /\ Entry(mt_inverse_table[f], mt_table[f][c]) = c
              /\ Entry(mt_table[f], Entry(mt_table[f], mt_table[f][c])) = c
        /\ \A c \in 0..mt_start_coord :
              PopulatePassed(f, c) =>
                  /\ Entry(mt_table[f], c) # U32_SENTINEL
                  /\ Entry(mt_inverse_table[f], c) # U32_SENTINEL

\* The loop has passed several start coordinates of the EdgeInFace table and
\* the orbit of coordinate 1 under L has been written.
MoveTableRoundTripWitness ==
    /\ mt_coord_type = "EdgeInFace" /\ mt_start_coord >= 2
    /\ Entry(mt_table["L"], 1) \notin {U32_SENTINEL, 1}
    /\ Entry(mt_inverse_table["L"], Entry(mt_table["L"], 1)) = 1

\* C3: every entry of table[F] is the coordinate of the state obtained by
\* applying F's raw turn once to the decoded coordinate, also where the entry
\* was written as the second or third element of another coordinate's orbit;
\* CornerState coordinate 0 under F gives 3327.
MoveTableAgreesWithRawTurn ==
    /\ \A f \in Faces : \A c \in DOMAIN mt_table[f] :
          mt_table[f][c] =
              state_to_coord(mt_coord_type,
                  apply_turn_to_state(coord_to_state(mt_coord_type, c),
                                      RawTurnGet(f), mt_coord_type))
    /\ (mt_coord_type = "CornerState" /\ 0 \in DOMAIN mt_table["F"])
          => mt_table["F"][0] = 3327

\* CornerState: the entry of 3327 under F was written as the second element
\* of the orbit of coordinate 0 and is not its own start.
MoveTableAgreesWitness ==
    /\ mt_coord_type = "CornerState"
    /\ Entry(mt_table["F"], 0) = 3327
    /\ Entry(mt_table["F"], 3327) \notin {U32_SENTINEL, 0, 3327}
    /\ mt_start_coord < 3327

\* The same agreement for inverse_table: its entry is the coordinate after two
\* raw turns.  (What inverse_table_entry reads.)
InverseTableAgreesWithRawTurn ==
    \A f \in Faces : \A c \in DOMAIN mt_inverse_table[f] :
        /\ mt_inverse_table[f][c] = inverse_table_entry(mt_coord_type, f, c)
        /\ Entry(mt_table[f], c) = table_entry(mt_coord_type, f, c)

(***************************************************************************)
(* SpecScramble: RawState::apply_sequence and CoordState::apply_sequence   *)
(* on the same turns, one turn per step                                    *)
(***************************************************************************)
\* Longest turn sequence applied.
MaxTurns == 2

ScrambleInit ==
    /\ raw = RawState_solved
    /\ coords = CoordState_solved
    /\ sequence = <<>>
    /\ sq_pc = "apply_sequence"
    /\ CdIdle /\ MtIdle /\ PtIdle /\ SrIdle /\ TcIdle /\ ApIdle /\ MgIdle

\* One iteration of `for turn in sequence { self.apply(turn) }` in both
\* representations.
ApplyTurn ==
    /\ sq_pc = "apply_sequence"
    /\ Len(sequence) < MaxTurns
    /\ \E turn \in AllTurns :
          /\ raw' = RawState_apply(raw, turn)
          /\ coords' = CoordState_apply(coords, turn)
          /\ sequence' = Append(sequence, turn)
    /\ UNCHANGED <<sq_pc, cd_vars, mt_vars, pt_vars, sr_vars,
                 tc_vars, ap_vars, mg_vars>>

ScrambleNext == ApplyTurn

SpecScramble == ScrambleInit /\ [][ScrambleNext]_vars

\* C4: after every turn sequence (the empty one included) the RawState
\* converted with to_coords equals the CoordState, on all five coordinates.
AgreementInCoordinates == RawState_to_coords(raw) = coords

\* Two turns, the second inverted, have been applied and the two
\* representations agree on a state in which all five coordinates have moved.
AgreementInCoordinatesWitness ==
    /\ Len(sequence) = 2
    /\ sequence[1] = Turn("F", FALSE) /\ sequence[2].invert
    /\ coords.corners # 0 /\ coords.edges_within_faces # 0
    /\ coords.edges_across_faces # 0 /\ coords.up_centres # 0
    /\ coords.down_centres # 0
    /\ RawState_to_coords(raw) = coords

\* C5: after every turn sequence the CoordState converted with to_raw equals
\* the RawState field by field.
AgreementInRawForm ==
    LET r == CoordState_to_raw(coords)
    IN /\ r.corners = raw.corners
       /\ r.corner_orientation = raw.corner_orientation
       /\ r.edges = raw.edges
       /\ r.up_centres = raw.up_centres
       /\ r.down_centres = raw.down_centres

\* After L D' the edges rebuilt from the two edge coordinates are the moved
\* edges of the RawState.
AgreementInRawFormWitness ==
    /\ sequence = <<Turn("L", FALSE), Turn("D", TRUE)>>
    /\ raw.edges # RawState_solved.edges
    /\ CoordState_get_edges(coords) = raw.edges
    /\ coord_to_state("EdgeAcrossFaces", coords.edges_across_faces)
           # coord_to_state("EdgeAcrossFaces", 0)

\* Number of pairs i < j with a[i] > a[j].
InversionCount(a) ==
    Cardinality({p \in (DOMAIN a) \X (DOMAIN a) : p[1] < p[2] /\ a[p[1]] > a[p[2]]})

IsPermutationOf(a, n) ==
    /\ DOMAIN a = 0..(n - 1)
    /\ {a[i] : i \in DOMAIN a} = 0..(n - 1)

\* Xor of the low six bits of a mask.
OrientationParity(mask) ==
    (mask + (mask \div 2) + (mask \div 4) + (mask \div 8)
          + (mask \div 16) + (mask \div 32)) % 2

\* C6: in every RawState reached from solved, corners is an even permutation
\* of 0..5, edges an even permutation of 0..11, and the six orientation bits
\* xor to 0.
ParityPreserved ==
    /\ IsPermutationOf(raw.corners, NUM_CORNERS)
    /\ InversionCount(raw.corners) % 2 = 0
    /\ IsPermutationOf(raw.edges, NUM_EDGES)
    /\ InversionCount(raw.edges) % 2 = 0
    /\ raw.corner_orientation \in 0..63
    /\ OrientationParity(raw.corner_orientation) = 0

\* Some corners are flipped and both permutations have moved.
ParityPreservedWitness ==
    /\ Len(sequence) >= 2
    /\ raw.corner_orientation # 0
    /\ raw.corners # RawState_solved.corners
    /\ raw.edges # RawState_solved.edges
    /\ InversionCount(raw.edges) > 0
    /\ OrientationParity(raw.corner_orientation) = 0

(***************************************************************************)
(* SpecPruning: SimplePruningTable::populate_coordinate, one step per      *)
(* iteration of the while loops of forward_fill_table and                  *)
(* backward_fill_table                                                     *)
(*                                                                         *)
(* The Vec<u8> table of a family that is held whole is a function on all   *)
(* its coordinates; for a larger family it is a function from the          *)
(* coordinates written so far, and a coordinate outside its domain still   *)
(* holds u8::MAX.  previous_fill_list is kept as a set: every coordinate   *)
(* is pushed at most once and the order of the list does not reach the     *)
(* table.                                                                  *)
(***************************************************************************)
\* Size of the largest family whose move table is held whole in the state;
\* the entries of a larger family are read through apply_move_to_coord, and
\* the backward sweep over all coordinates is followed for held tables only.
MaxTable == 11520

\* Largest frontier of a family that is not held whole that is still expanded.
MaxFrontier == 32

IsHeld(coord_type) == get_size(coord_type) <= MaxTable

\* MoveTable::new: for each face and coordinate the entries of table and
\* inverse_table, from the cycle populate computes.
MoveTable_new(coord_type) ==
    [f \in Faces |->
        [c \in (IF IsHeld(coord_type) THEN 0..(get_size(coord_type) - 1) ELSE {}) |->
            LET cycle == populate_cycle(coord_type, f, c)
            IN [table |-> cycle[1], inverse_table |-> cycle[2]]]]

\* move_table.apply_move_to_coord(coord, coord_type, turn)
MoveTable_apply(move_table, coord, coord_type, turn) ==
    IF coord \in DOMAIN move_table[turn.face]
    THEN IF turn.invert THEN move_table[turn.face][coord].inverse_table
                        ELSE move_table[turn.face][coord].table
    ELSE apply_move_to_coord(coord, coord_type, turn)

\* Mutant: only the clockwise turn of each face is allowed.
SimplePruningTable_get_allowed_turns_clockwise(faces) ==
    {Turn(faces[i], FALSE) : i \in 1..Len(faces)}

\* SimplePruningTable::get_allowed_turns: (face, true) and (face, false) for
\* every face of self.faces.
SimplePruningTable_get_allowed_turns(faces) ==
    {Turn(faces[i], TRUE) : i \in 1..Len(faces)}
        \cup {Turn(faces[i], FALSE) : i \in 1..Len(faces)}

AllCoords(coord_type) == 0..(get_size(coord_type) - 1)

TableGet(table, coord) == IF coord \in DOMAIN table THEN table[coord] ELSE U8_MAX

\* table[c] = value for every c of written
TableWrite(table, coord_type, written, value) ==
    [c \in (IF IsHeld(coord_type) THEN AllCoords(coord_type)
                                  ELSE (DOMAIN table) \cup written) |->
        IF c \in written THEN value ELSE TableGet(table, c)]

\* Mutant: `*remaining -= 1` is left out of the forward fill.
forward_fill_remaining_kept(remaining, filled) == remaining

\* `*remaining -= 1` for every coordinate the forward fill writes.
forward_fill_remaining(remaining, filled) == remaining - filled

\* One iteration of the while loop of forward_fill_table, without the
\* increment of distance: every neighbour of the previous fill list that
\* still holds u8::MAX gets `distance`.
forward_fill_level(table, move_table, coord_type, turns, distance, remaining, previous_fill_list) ==
    LET reached == {MoveTable_apply(move_table, c, coord_type, t) :
                        c \in previous_fill_list, t \in turns}
        next_fill_list == {n \in reached : TableGet(table, n) = U8_MAX}
    IN [table |-> TableWrite(table, coord_type, next_fill_list, distance),
        fill_list |-> next_fill_list,
        remaining |-> forward_fill_remaining(remaining, Cardinality(next_fill_list))]

\* Mutant: the neighbour is compared with distance, not distance - 1.
backward_fill_hit_same_distance(table, move_table, coord_type, turns, distance, coord) ==
    \E t \in turns :
        TableGet(table, MoveTable_apply(move_table, coord, coord_type, t)) = distance

\* if table[next_coord] == *distance - 1, for some allowed turn
backward_fill_hit(table, move_table, coord_type, turns, distance, coord) ==
    \E t \in turns :
        TableGet(table, MoveTable_apply(move_table, coord, coord_type, t)) = distance - 1

\* One iteration of the while loop of backward_fill_table, without the
\* increment of distance.  An entry written in this sweep holds `distance`,
\* which is not `distance - 1`, so the sweep reads the table as it was.
backward_fill_level(table, move_table, coord_type, turns, distance, remaining) ==
    LET hits == {c \in AllCoords(coord_type) :
                    /\ TableGet(table, c) = U8_MAX
                    /\ backward_fill_hit(table, move_table, coord_type, turns, distance, c)}
    IN [table |-> TableWrite(table, coord_type, hits, distance),
        remaining |-> remaining - Cardinality(hits)]

forward_stop_point(coord_type) == get_size(coord_type) \div 3

\* SimplePruningTable::init(faces), then populate_coordinate up to the first
\* test of the forward loop: table[0] = 0, distance = 1, remaining = n - 1.
PruningInit ==
    /\ pt_coord_type \in {CoordinateIter[i] : i \in 1..Len(CoordinateIter)}
    /\ pt_move_table = MoveTable_new(pt_coord_type)
    /\ pt_faces \in {get_all_faces, get_up_faces}
    /\ pt_table = TableWrite(<<>>, pt_coord_type, {0}, 0)
    /\ pt_distance = 1
    /\ pt_remaining = get_size(pt_coord_type) - 1
    /\ pt_fill_list = {0}
    /\ pt_pc = "forward"
    /\ CdIdle /\ MtIdle /\ SqIdle /\ SrIdle /\ TcIdle /\ ApIdle /\ MgIdle

\* Mutant: the distance goes up by two per level.
next_distance_by_two(distance) == distance + 2

\* *distance += 1, below 255
next_distance(distance) == distance + 1

\* `*distance += 1` on a u8: at 255 a debug build panics and a release build
\* wraps to 0; "overflow" stands for both and is not followed further.
IncrementDistance(next_pc) ==
    IF pt_distance = U8_MAX
    THEN pt_distance' = pt_distance /\ pt_pc' = "overflow"
    ELSE pt_distance' = next_distance(pt_distance) /\ pt_pc' = next_pc

\* One pass of the body of `while *remaining > 0 && previous_fill_list.len()
\* < forward_stop_point`; when the test fails afterwards control reaches the
\* backward loop, which is skipped when remaining is 0.
ForwardLevel ==
    /\ pt_pc = "forward"
    /\ IsHeld(pt_coord_type) \/ Cardinality(pt_fill_list) <= MaxFrontier
    /\ LET level == forward_fill_level(pt_table, pt_move_table, pt_coord_type,
                        SimplePruningTable_get_allowed_turns(pt_faces),
                        pt_distance, pt_remaining, pt_fill_list)
       IN /\ pt_table' = level.table
          /\ pt_fill_list' = level.fill_list
          /\ pt_remaining' = level.remaining
          /\ IncrementDistance(
                 IF level.remaining > 0
                 THEN IF Cardinality(level.fill_list) < forward_stop_point(pt_coord_type)
                      THEN "forward" ELSE "backward"
                 ELSE "returned")
    /\ UNCHANGED <<pt_coord_type, pt_faces, pt_move_table, cd_vars, mt_vars, sq_vars, sr_vars,
                 tc_vars, ap_vars, mg_vars>>

\* One pass of the body of `while *remaining > 0` in backward_fill_table.
BackwardLevel ==
    /\ pt_pc = "backward"
    /\ IsHeld(pt_coord_type)
    /\ LET level == backward_fill_level(pt_table, pt_move_table, pt_coord_type,
                        SimplePruningTable_get_allowed_turns(pt_faces),
                        pt_distance, pt_remaining)
       IN /\ pt_table' = level.table
          /\ pt_remaining' = level.remaining
          /\ IncrementDistance(IF level.remaining > 0 THEN "backward" ELSE "returned")
    /\ UNCHANGED <<pt_coord_type, pt_faces, pt_move_table, pt_fill_list,
                   cd_vars, mt_vars, sq_vars, sr_vars, tc_vars, ap_vars, mg_vars>>

PruningNext == ForwardLevel \/ BackwardLevel

SpecPruning == PruningInit /\ [][PruningNext]_vars

MinOf(S) == CHOOSE m \in S : \A x \in S : m <= x

\* The entry of c is 1 + the minimum of the entries of its 16 neighbours, an
\* unwritten neighbour counting as 255.
OneMoreThanNearestNeighbour(c) ==
    pt_table[c] = 1 + MinOf({TableGet(pt_table,
                                 MoveTable_apply(pt_move_table, c, pt_coord_type, t)) :
                             t \in AllTurns})

\* C7: built with all eight faces, the table holds exact BFS distances:
\* d[0] = 0 and d[c] = 1 + min over the 16 turns of d[apply_move(c, t)] for
\* every other c of the returned table, whichever phase wrote the entry, and
\* no entry of it is unwritten; for a family whose build is followed over its
\* first levels only, the same equation holds for every entry written.
PruningExact ==
    pt_faces = get_all_faces =>
        /\ TableGet(pt_table, 0) = 0
        /\ pt_pc = "returned" =>
              \A c \in AllCoords(pt_coord_type) :
                  /\ TableGet(pt_table, c) # U8_MAX
                  /\ c # 0 => OneMoreThanNearestNeighbour(c)
        /\ ~IsHeld(pt_coord_type) =>
              \A c \in DOMAIN pt_table : c # 0 => OneMoreThanNearestNeighbour(c)

\* The CornerState table has been returned after both phases wrote entries:
\* distance 4 comes from the forward fill, distances 5 and 6 from the
\* backward fill.
PruningExactWitness ==
    /\ pt_pc = "returned" /\ pt_faces = get_all_faces
    /\ pt_coord_type = "CornerState"
    /\ pt_distance = 7
    /\ \E c \in DOMAIN pt_table : pt_table[c] = 6
    /\ pt_table[3327] = 1

\* The entries of c and of its image under every allowed turn differ by at
\* most 1, where both are written.
WithinOneOfNeighbours(c) ==
    \A t \in SimplePruningTable_get_allowed_turns(pt_faces) :
        LET d == TableGet(pt_table, c)
            e == TableGet(pt_table, MoveTable_apply(pt_move_table, c, pt_coord_type, t))
        IN (d # U8_MAX /\ e # U8_MAX) => d - e \in {-1, 0, 1}

\* C8: in a finished table the distances of a coordinate and of its image
\* under any allowed turn differ by at most 1; for a family whose build is
\* followed over its first levels only, the same holds between the entries
\* written so far, after every level that wrote entries.
PruningConsistent ==
    /\ pt_pc = "returned" => \A c \in AllCoords(pt_coord_type) : WithinOneOfNeighbours(c)
    /\ (~IsHeld(pt_coord_type) /\ pt_fill_list # {}) =>
          \A c \in DOMAIN pt_table : WithinOneOfNeighbours(c)

\* A finished table built with the up faces only, in which a turn has moved a
\* coordinate one step closer to 0 and another turn one step away.
PruningConsistentWitness ==
    /\ pt_pc = "returned" /\ pt_faces = get_up_faces
    /\ \E c \in {3327} :
          \E t, u \in SimplePruningTable_get_allowed_turns(pt_faces) :
              /\ TableGet(pt_table, MoveTable_apply(pt_move_table, c, pt_coord_type, t))
                     = pt_table[c] - 1
              /\ TableGet(pt_table, MoveTable_apply(pt_move_table, c, pt_coord_type, u))
                     = pt_table[c] + 1

RECURSIVE matched_triples_loop(_, _, _, _)
matched_triples_loop(down_centres, triple_centres, corner_state, i) ==
    IF i > ALen(corner_state) - 1 THEN down_centres
    ELSE LET index == corner_state[i] \div 2
             flipped == (corner_state[i] % 2) = 1
             main == triple_centres[CORNER_MAIN_TRIPLE_CENTRE[index]]
             other == triple_centres[CORNER_FLIPPED_TRIPLE_CENTRE[index]]
             placed == [down_centres EXCEPT
                           ![CORNER_MAIN_TRIPLE_CENTRE[i]] = IF flipped THEN other ELSE main,
                           ![CORNER_FLIPPED_TRIPLE_CENTRE[i]] = IF flipped THEN main ELSE other]
         IN matched_triples_loop(placed, triple_centres, corner_state, i + 1)

\* Mutant: the orientation of the corners is not read.
get_down_centre_coord_for_matched_triples_unflipped(corner_coord) ==
    LET triple_centres == coord_to_state("TripleCentre", 0)
        corner_state == coord_to_state("CornerState", corner_coord % NUM_CORNER_PERMS)
    IN face_position_to_coord(
           matched_triples_loop(triple_centres, triple_centres, corner_state, 0))

get_down_centre_coord_for_matched_triples(corner_coord) ==
    LET triple_centres == coord_to_state("TripleCentre", 0)
        corner_state == coord_to_state("CornerState", corner_coord)
    IN face_position_to_coord(
           matched_triples_loop(triple_centres, triple_centres, corner_state, 0))

\* Mutant: the down centres are compared with the solved coordinate 0.
do_triple_centres_match_corners_zero(corners, down_centres) ==
    down_centres = 0

\* SOLVED_CENTRES[corners] == down_centres, where SOLVED_CENTRES[c] is
\* get_down_centre_coord_for_matched_triples(c).
do_triple_centres_match_corners(corners, down_centres) ==
    get_down_centre_coord_for_matched_triples(corners) = down_centres

\* CoordState::apply_sequence
RECURSIVE CoordState_apply_sequence(_, _)
CoordState_apply_sequence(self, turns) ==
    IF turns = <<>> THEN self
    ELSE LET state == CoordState_apply(self, Head(turns))
         IN \* state = state.apply(turn): the state is a value of five
            \* coordinates before the next turn is applied to it.
            CASE DOMAIN state = DOMAIN self ->
                     CoordState_apply_sequence(state, Tail(turns))

(***************************************************************************)
(* search.rs                                                               *)
(***************************************************************************)
\* prev_turn = None
NoTurn == [face |-> "None", invert |-> FALSE]

\* Mutant: a second turn of the same face is let through.
is_redundant_turn_axis_only(prev_turn, curr_turn) ==
    IF prev_turn = NoTurn THEN FALSE
    ELSE get_primary_face(prev_turn.face) = get_primary_face(curr_turn.face)
             /\ curr_turn.face = get_primary_face(curr_turn.face)
             /\ prev_turn.face # curr_turn.face

\* Mutant: a turn of a secondary face is rejected after any turn.
is_redundant_turn_secondary(prev_turn, curr_turn) ==
    IF prev_turn = NoTurn THEN FALSE
    ELSE \/ prev_turn.face = curr_turn.face
         \/ curr_turn.face # get_primary_face(curr_turn.face)

is_redundant_turn(prev_turn, curr_turn) ==
    IF prev_turn = NoTurn THEN FALSE
    ELSE LET prev_axis == get_primary_face(prev_turn.face)
             curr_axis == get_primary_face(curr_turn.face)
         IN \/ prev_turn.face = curr_turn.face
            \/ (prev_axis = curr_axis /\ curr_turn.face = curr_axis)

is_phase_1_solved(state) ==
    /\ state.edges_within_faces = 0
    /\ state.up_centres = 0
    /\ do_triple_centres_match_corners(state.corners, state.down_centres)

\* SimplePruningTable::get_distance_lower_bound: the largest table entry of
\* the given coordinates.
RECURSIVE get_distance_lower_bound_loop(_, _, _, _, _)
get_distance_lower_bound_loop(tables, coord_list, coord_types, i, distance) ==
    IF i > Len(coord_list) THEN distance
    ELSE LET new_distance == TableGet(tables[coord_types[i]], coord_list[i])
         IN get_distance_lower_bound_loop(tables, coord_list, coord_types, i + 1,
                IF new_distance > distance THEN new_distance ELSE distance)

get_distance_lower_bound(tables, coord_list, coord_types) ==
    get_distance_lower_bound_loop(tables, coord_list, coord_types, 1, 0)

\* pruning_tables.get_distance(coord, coord_type): the lookup of one family.
get_distance(pruning_tables, coord, coord_type) ==
    get_distance_lower_bound(pruning_tables, <<coord>>, <<coord_type>>)

\* Mutant: the distances are compared with limit - 1.
should_prune_phase_1_early(state, pruning_tables, limit) ==
    LET edge_in_face_dist == get_distance(pruning_tables, state.edges_within_faces, "EdgeInFace")
        up_centre_dist == get_distance(pruning_tables, state.down_centres, "DownCentre")
    IN edge_in_face_dist > limit - 1 \/ up_centre_dist > limit - 1

\* The second distance is read from down_centres in the DownCentre table.
should_prune_phase_1(state, pruning_tables, limit) ==
    LET edge_in_face_dist == get_distance(pruning_tables, state.edges_within_faces, "EdgeInFace")
        up_centre_dist == get_distance(pruning_tables, state.down_centres, "DownCentre")
    IN edge_in_face_dist > limit \/ up_centre_dist > limit

\* Mutant: the turn that led to the solution is not put in front of it.
insert_turn_dropped(solution, turn) == solution

\* solution.insert(0, turn)
insert_turn(solution, turn) == <<turn>> \o solution

\* search_phase_1.  search_phase_1_turn is the body of its
\* `for turn in Turn::get_all_turns()` for the i-th turn: the solution the
\* body returns, or <<>> where it goes on to the next turn.  The loop
\* returns at the first turn, in order, whose body returns.
RECURSIVE search_phase_1(_, _, _, _)
search_phase_1_turn(state, pruning_tables, limit, prev_turn, i) ==
    LET turn == get_all_turns[i]
        next_state == CoordState_apply(state, turn)
        solution == search_phase_1(next_state, pruning_tables, limit - 1, turn)
    IN IF is_redundant_turn(prev_turn, turn) THEN <<>>
       ELSE IF is_phase_1_solved(next_state) THEN <<turn>>
       ELSE IF ~should_prune_phase_1(next_state, pruning_tables, limit)
            THEN IF solution # <<>> THEN insert_turn(solution, turn) ELSE <<>>
            ELSE <<>>

search_phase_1(state, pruning_tables, limit, prev_turn) ==
    IF limit > 0
    THEN LET returning == {i \in 1..Len(get_all_turns) :
                 search_phase_1_turn(state, pruning_tables, limit, prev_turn, i) # <<>>}
         IN IF returning = {} THEN <<>>
            ELSE search_phase_1_turn(state, pruning_tables, limit, prev_turn,
                                     MinOf(returning))
    ELSE <<>>

(***************************************************************************)
(* SpecSearch: search_phase_1(state, move_tables, pruning_tables, limit,   *)
(* None) on a scrambled state                                              *)
(***************************************************************************)
\* Largest limit the search is called with.
MaxLimit == 2

\* The first `levels` levels of the forward fill of a pruning table built
\* with all eight faces.
RECURSIVE PruningLevels(_, _, _, _, _)
PruningLevels(table, coord_type, distance, fill_list, levels) ==
    IF distance > levels THEN table
    ELSE LET level == forward_fill_level(table, MoveTable_new(coord_type), coord_type,
                          SimplePruningTable_get_allowed_turns(get_all_faces),
                          distance, get_size(coord_type), fill_list)
         IN PruningLevels(level.table, coord_type, next_distance(distance),
                          level.fill_list, levels)

\* The two pruning tables phase 1 reads, up to distance MaxLimit.  An entry
\* beyond is 255 here and a distance above MaxLimit in the finished table;
\* the search compares entries with limits of at most MaxLimit only.
SearchPruningTables ==
    [coord_type \in {"EdgeInFace", "DownCentre"} |->
        PruningLevels(TableWrite(<<>>, coord_type, {0}, 0), coord_type, 1, {0}, MaxLimit)]

\* main.rs: the scramble R U R U applied to the solved state.
MainScramble ==
    <<Turn("R", FALSE), Turn("U", FALSE), Turn("R", FALSE), Turn("U", FALSE)>>

\* The scrambles searched from: the prefixes of the scramble of main.rs
\* (the empty one included), the single turns, and five more of two and
\* four turns (the commented-out CoordState::get_random of main.rs gives any
\* state).
Scrambles ==
    {SubSeq(MainScramble, 1, n) : n \in 0..Len(MainScramble)}
        \cup {<<turn>> : turn \in AllTurns}
        \cup {<<Turn("U", FALSE), Turn("F", FALSE), Turn("B", FALSE), Turn("D", FALSE)>>,
              <<Turn("U", FALSE), Turn("F", FALSE)>>,
              <<Turn("U", FALSE), Turn("L", FALSE)>>,
              <<Turn("R", FALSE), Turn("BL", FALSE)>>,
              <<Turn("D", FALSE), Turn("B", FALSE)>>}

SearchInit ==
    /\ sr_pruning_tables = SearchPruningTables
    /\ sr_state \in {CoordState_apply_sequence(CoordState_solved, s) : s \in Scrambles}
    /\ sr_limit \in 0..MaxLimit
    /\ sr_solution = <<>>
    /\ sr_pc = "call"
    /\ CdIdle /\ MtIdle /\ SqIdle /\ PtIdle /\ TcIdle /\ ApIdle /\ MgIdle

\* let solution = search_phase_1(&random, &move_tables, &pruning_tables, limit, None)
Search ==
    /\ sr_pc = "call"
    /\ sr_solution' = search_phase_1(sr_state, sr_pruning_tables, sr_limit, NoTurn)
    /\ sr_pc' = "returned"
    /\ UNCHANGED <<sr_state, sr_pruning_tables, sr_limit, cd_vars, mt_vars, sq_vars, pt_vars,
                 tc_vars, ap_vars, mg_vars>>

SearchNext == Search

SpecSearch == SearchInit /\ [][SearchNext]_vars

\* C10: a non-empty result of search_phase_1(state, .., limit, None) has
\* between 1 and limit turns, and applying them to state in order gives a
\* state for which is_phase_1_solved holds; with limit = 0 the result is
\* empty.
SearchSound ==
    sr_pc = "returned" =>
        /\ sr_solution # <<>> =>
              /\ Len(sr_solution) \in 1..sr_limit
              /\ \A i \in 1..Len(sr_solution) : sr_solution[i] \in AllTurns
              /\ is_phase_1_solved(CoordState_apply_sequence(sr_state, sr_solution))
        /\ sr_limit = 0 => sr_solution = <<>>

\* From the state after R U the search with limit 2 has returned two turns
\* that lead to a phase-1-solved state; the state itself is not one.
SearchSoundWitness ==
    /\ sr_pc = "returned" /\ sr_limit = 2
    /\ sr_state = CoordState_apply_sequence(CoordState_solved, SubSeq(MainScramble, 1, 2))
    /\ ~is_phase_1_solved(sr_state)
    /\ Len(sr_solution) = 2
    /\ is_phase_1_solved(CoordState_apply_sequence(sr_state, sr_solution))

\* Some sequence of between 1 and k turns takes state to a phase-1-solved
\* state.
RECURSIVE HasSolutionWithin(_, _)
HasSolutionWithin(state, k) ==
    /\ k > 0
    /\ \/ \E turn \in AllTurns : is_phase_1_solved(CoordState_apply(state, turn))
       \/ \E turn \in AllTurns : HasSolutionWithin(CoordState_apply(state, turn), k - 1)

\* C11: whenever some sequence of between 1 and limit turns takes the state
\* to a phase-1-solved state, search_phase_1 with that limit returns a
\* non-empty sequence.
SearchComplete ==
    (sr_pc = "returned" /\ sr_limit >= 1 /\ HasSolutionWithin(sr_state, sr_limit))
        => sr_solution # <<>>

\* Some sequence of between 1 and k turns, none of them redundant after the
\* one before it (the first after prev_turn), takes state to a
\* phase-1-solved state.
RECURSIVE HasFilteredSolutionWithin(_, _, _)
HasFilteredSolutionWithin(state, k, prev_turn) ==
    /\ k > 0
    /\ \/ \E turn \in AllTurns :
             /\ ~is_redundant_turn(prev_turn, turn)
             /\ is_phase_1_solved(CoordState_apply(state, turn))
       \/ \E turn \in AllTurns :
             /\ ~is_redundant_turn(prev_turn, turn)
             /\ HasFilteredSolutionWithin(CoordState_apply(state, turn), k - 1, turn)

\* The two faces of an axis: a secondary face and its primary face.
AxisPairs == {<<face, get_primary_face(face)>> : face \in {f \in Faces : get_primary_face(f) # f}}

\* Turns of the two faces of an axis commute on all five coordinates.
AxisFacesCommute(state) ==
    \A pair \in AxisPairs : \A a \in AllTurns, b \in AllTurns :
        (a.face = pair[1] /\ b.face = pair[2]) =>
            CoordState_apply(CoordState_apply(state, a), b)
                = CoordState_apply(CoordState_apply(state, b), a)

\* C12: if some sequence of k turns takes the state to a phase-1-solved
\* state, so does some sequence of at most k turns without a consecutive
\* pair that is_redundant_turn rejects; and the two faces of each axis
\* commute on the five coordinates of the state (looked at once for each
\* state, where the limit is MaxLimit).
RedundantFilterLossless ==
    sr_pc = "call" =>
        /\ HasSolutionWithin(sr_state, sr_limit)
              => HasFilteredSolutionWithin(sr_state, sr_limit, NoTurn)
        /\ sr_limit = MaxLimit => AxisFacesCommute(sr_state)

\* From the state after D, the two turns D' U lead to a phase-1-solved state
\* and the pair is rejected by the filter; a sequence the filter accepts
\* exists as well.
RedundantFilterLosslessWitness ==
    /\ sr_pc = "call" /\ sr_limit = 2
    /\ sr_state = CoordState_apply(CoordState_solved, Turn("D", FALSE))
    /\ ~is_phase_1_solved(sr_state)
    /\ is_redundant_turn(Turn("D", TRUE), Turn("U", FALSE))
    /\ is_phase_1_solved(CoordState_apply_sequence(sr_state,
                              <<Turn("D", TRUE), Turn("U", FALSE)>>))
    /\ HasFilteredSolutionWithin(sr_state, sr_limit, NoTurn)

\* The turn of the same face in the opposite direction.
InverseTurn(turn) == Turn(turn.face, ~turn.invert)

UpFaces == {get_up_faces[i] : i \in 1..Len(get_up_faces)}

UpTurnsKeepSolved ==
    is_phase_1_solved(coords) =>
        \A t \in AllTurns :
            t.face \in UpFaces =>
                LET next_state == CoordState_apply(coords, t)
                IN /\ next_state.edges_within_faces = 0
                   /\ next_state.up_centres = 0
                   /\ next_state.down_centres
                          = get_down_centre_coord_for_matched_triples(next_state.corners)
                   /\ is_phase_1_solved(next_state)

\* The state after U F is phase-1-solved with corners and down centres away
\* from their solved coordinates, and stays phase-1-solved under BL'.
UpTurnsKeepSolvedWitness ==
    /\ sequence = <<Turn("U", FALSE), Turn("F", FALSE)>>
    /\ is_phase_1_solved(coords)
    /\ coords.corners # 0 /\ coords.down_centres # 0
    /\ is_phase_1_solved(CoordState_apply(coords, Turn("BL", TRUE)))

(***************************************************************************)
(* SpecTriple: precompute_solved_triple_centre_coords fills SOLVED_CENTRES *)
(***************************************************************************)
\* The down centres get_down_centre_coord_for_matched_triples builds before
\* it encodes them.
matched_triples_down_centres(corner_coord) ==
    LET triple_centres == coord_to_state("TripleCentre", 0)
        corner_state == coord_to_state("CornerState", corner_coord)
    IN matched_triples_loop(triple_centres, triple_centres, corner_state, 0)

\* let mut coord_map = [0; NUM_CORNER_STATES]
TripleInit ==
    /\ tc_coord = 0 /\ tc_down_centres = <<>> /\ tc_item = 0 /\ tc_pc = "filling"
    /\ CdIdle /\ MtIdle /\ SqIdle /\ PtIdle /\ SrIdle /\ ApIdle /\ MgIdle

\* *item = get_down_centre_coord_for_matched_triples(coord as u32), for the
\* next coord of coord_map; tc_item is the entry written.
PrecomputeEntry ==
    /\ tc_pc = "filling"
    /\ tc_coord < NUM_CORNER_STATES
    /\ tc_down_centres' = matched_triples_down_centres(tc_coord)
    /\ tc_item' = get_down_centre_coord_for_matched_triples(tc_coord)
    /\ tc_coord' = tc_coord + 1
    /\ UNCHANGED <<tc_pc, cd_vars, mt_vars, sq_vars, pt_vars, sr_vars, ap_vars, mg_vars>>

\* coord_map is returned.
PrecomputeReturn ==
    /\ tc_pc = "filling"
    /\ tc_coord = NUM_CORNER_STATES
    /\ tc_pc' = "returned"
    /\ UNCHANGED <<tc_coord, tc_down_centres, tc_item,
                   cd_vars, mt_vars, sq_vars, pt_vars, sr_vars, ap_vars, mg_vars>>

TripleNext == PrecomputeEntry \/ PrecomputeReturn

SpecTriple == TripleInit /\ [][TripleNext]_vars

\* Number of positions of a vector that hold the label.
CountOf(state, label) == Cardinality({i \in DOMAIN state : state[i] = label})

\* C15: every entry of the triple table, for the corner coordinates 0 to
\* 11519, is a DownCentre coordinate in 0..369599, the encoding of a vector
\* of twelve down centres holding each of the labels 0, 3, 6, 9 exactly three
\* times; the entries of 0, 1 and 360 are 0, 540 and 1790.
TripleTableValues ==
    (tc_pc # "idle" /\ tc_coord > 0) =>
        /\ tc_item \in 0..(NUM_FACE_PIECE_PERMS - 1)
        /\ DOMAIN tc_down_centres = 0..(NUM_CENTRES - 1)
        /\ \A label \in {0, 3, 6, 9} : CountOf(tc_down_centres, label) = 3
        /\ tc_item = state_to_coord("DownCentre", tc_down_centres)
        /\ tc_coord - 1 = 0 => tc_item = 0
        /\ tc_coord - 1 = 1 => tc_item = 540
        /\ tc_coord - 1 = 360 => tc_item = 1790
        /\ tc_pc = "returned" => tc_coord = NUM_CORNER_STATES

\* The entry of corner coordinate 360 has been written, and the loop goes on
\* to the last corner coordinate.
TripleTableValuesWitness ==
    \/ tc_coord = 361 /\ tc_item = 1790
    \/ tc_pc = "returned" /\ tc_coord = 11520 /\ tc_item > 0

\* max(d_EdgeInFace[state.edges_within_faces], d_DownCentre[state.down_centres])
PhaseOneLowerBound(state, pruning_tables) ==
    LET edge_in_face_dist == TableGet(pruning_tables["EdgeInFace"], state.edges_within_faces)
        down_centre_dist == TableGet(pruning_tables["DownCentre"], state.down_centres)
    IN IF edge_in_face_dist > down_centre_dist THEN edge_in_face_dist ELSE down_centre_dist

\* The successors of the searched state that are not phase-1-solved, by
\* the index of the turn in get_all_turns.
UnsolvedSuccessors ==
    {i \in 1..Len(get_all_turns) :
        ~is_phase_1_solved(CoordState_apply(sr_state, get_all_turns[i]))}

\* The body of the loop of search_phase_1 skips the i-th turn: it returns
\* nothing whatever the search from the successor would return.
Skipped(i, threshold) ==
    LET next_state == CoordState_apply(sr_state, get_all_turns[i])
    IN /\ should_prune_phase_1(next_state, sr_pruning_tables, sr_limit)
             <=> PhaseOneLowerBound(next_state, sr_pruning_tables) > threshold
       /\ PhaseOneLowerBound(next_state, sr_pruning_tables) > threshold
             => search_phase_1_turn(sr_state, sr_pruning_tables, sr_limit, NoTurn, i) = <<>>
       /\ PhaseOneLowerBound(next_state, sr_pruning_tables) <= threshold
             => search_phase_1_turn(sr_state, sr_pruning_tables, sr_limit, NoTurn, i)
                  = LET solution == search_phase_1(next_state, sr_pruning_tables,
                                                   sr_limit - 1, get_all_turns[i])
                    IN IF solution # <<>> THEN <<get_all_turns[i]>> \o solution ELSE <<>>

\* C16 as stated: in search_phase_1 called with remaining depth limit, a
\* successor that is not phase-1-solved is skipped exactly when the larger
\* of its EdgeInFace and DownCentre distances is greater than limit - 1.
PruneThresholdLimitMinusOne ==
    (sr_pc = "returned" /\ sr_limit >= 1) =>
        \A i \in UnsolvedSuccessors : Skipped(i, sr_limit - 1)

\* C16: in search_phase_1 called with remaining depth limit, a successor
\* that is not phase-1-solved is skipped exactly when the larger of its
\* EdgeInFace and DownCentre distances is greater than limit; a successor
\* whose larger distance equals limit is searched with limit - 1.
PruneThreshold ==
    (sr_pc = "returned" /\ sr_limit >= 1) =>
        \A i \in UnsolvedSuccessors : Skipped(i, sr_limit)

\* The search with limit 2 has returned, and one of the successors of the
\* searched state is not phase-1-solved and has a larger distance equal to
\* the limit: it was not skipped but searched with limit 1.
PruneThresholdWitness ==
    /\ sr_pc = "returned" /\ sr_limit = 2
    /\ \E i \in UnsolvedSuccessors :
          LET next_state == CoordState_apply(sr_state, get_all_turns[i])
          IN /\ PhaseOneLowerBound(next_state, sr_pruning_tables) = sr_limit
             /\ ~should_prune_phase_1(next_state, sr_pruning_tables, sr_limit)
             /\ search_phase_1_turn(sr_state, sr_pruning_tables, sr_limit, NoTurn, i)
                  = search_phase_1(next_state, sr_pruning_tables, 1, get_all_turns[i])

\* C17: for every state reached from solved, the larger of its EdgeInFace
\* and DownCentre distances is at most the least number of turns that take
\* it to a phase-1-solved state: 0 where the state is phase-1-solved, and at
\* most k where some sequence of at most k turns reaches one.
PruneAdmissible ==
    /\ is_phase_1_solved(sr_state) => PhaseOneLowerBound(sr_state, sr_pruning_tables) = 0
    /\ \A k \in 1..sr_limit :
          HasSolutionWithin(sr_state, k) => PhaseOneLowerBound(sr_state, sr_pruning_tables) <= k

(***************************************************************************)
(* SpecApply: apply_raw_permutation(state, effect), one write per step     *)
(***************************************************************************)
\* The arrays of test_apply_permutation, and the corner state of
\* test_apply_move_to_corner_state in movetables.rs.
ApplyStates ==
    {Arr(<<0, 1, 2, 3, 4, 5>>), Arr(<<1, 2, 3, 4, 5, 0>>), Arr(<<3, 2, 1, 4, 5, 0>>),
     Arr(<<0, 2, 4, 6, 8, 10>>)}

\* The effects of test_apply_permutation, the corner permutations of the
\* eight raw turns, and an effect shorter than the array.
ApplyEffects ==
    {Arr(<<0, 1, 2, 3, 4, 5>>), Arr(<<1, 2, 3, 4, 5, 0>>), Arr(<<5, 3, 4, 2, 0, 1>>),
     Arr(<<2, 0, 1>>)}
        \cup {RawTurnGet(get_all_faces[f]).corner_permutation : f \in 1..Len(get_all_faces)}

\* let orig_state: Vec<T> = state.to_vec()
ApplyInit ==
    /\ ap_state \in ApplyStates
    /\ ap_effect \in ApplyEffects
    /\ ap_orig_state = ap_state
    /\ ap_i = 0
    /\ ap_orient_effect = 0 /\ ap_pc = "apply_raw_permutation"
    /\ CdIdle /\ MtIdle /\ SqIdle /\ PtIdle /\ SrIdle /\ TcIdle /\ MgIdle

\* One iteration of `for i in 0..effect.len()`.
ApplyWrite ==
    /\ ap_pc = "apply_raw_permutation"
    /\ ap_i < ALen(ap_effect)
    /\ ap_state' = write_entry(ap_state, ap_orig_state, ap_effect, ap_i)
    /\ ap_i' = ap_i + 1
    /\ UNCHANGED <<ap_orig_state, ap_effect, ap_orient_effect, ap_pc,
                   cd_vars, mt_vars, sq_vars, pt_vars, sr_vars, tc_vars, mg_vars>>

ApplyNext == ApplyWrite

SpecApply == ApplyInit /\ [][ApplyNext]_vars

\* The array after the indices of `order` (a sequence of indices of effect)
\* are written one after the other.
RECURSIVE WriteInOrder(_, _, _, _)
WriteInOrder(state, orig_state, effect, order) ==
    IF order = <<>> THEN state
    ELSE WriteInOrder(write_entry(state, orig_state, effect, Head(order) - 1),
                      orig_state, effect, Tail(order))

\* C18: while apply_raw_permutation runs, every index written so far holds
\* the value the input held at effect[i] and every other index its input
\* value; when it returns, state[i] is the input's value at effect[i] for
\* every i < len(effect), and writing the indices in any other order gives
\* the same array.
PullsFromSnapshot ==
    ap_pc = "apply_raw_permutation" =>
        /\ \A j \in DOMAIN ap_state :
              ap_state[j] = IF j < ap_i THEN ap_orig_state[ap_effect[j]]
                                       ELSE ap_orig_state[j]
        /\ ap_i = ALen(ap_effect) =>
              /\ ap_state = apply_raw_permutation(ap_orig_state, ap_effect)
              /\ \A order \in Permutations(1..ALen(ap_effect)) :
                    WriteInOrder(ap_orig_state, ap_orig_state, ap_effect, order) = ap_state

\* The last case of test_apply_permutation has returned: [3,2,1,4,5,0]
\* under [5,3,4,2,0,1] is [0,4,5,1,3,2].
PullsFromSnapshotWitness ==
    /\ ap_orig_state = Arr(<<3, 2, 1, 4, 5, 0>>)
    /\ ap_effect = Arr(<<5, 3, 4, 2, 0, 1>>)
    /\ ap_i = ALen(ap_effect)
    /\ ap_state = Arr(<<0, 4, 5, 1, 3, 2>>)

\* The corner vector of a turn: the corner_permutation of its face, applied
\* once for a clockwise turn and twice for an inverted one.
CornerVector(turn) ==
    LET e == RawTurnGet(turn.face).corner_permutation
    IN IF turn.invert THEN [n \in DOMAIN e |-> e[e[n]]] ELSE e

\* The turn the step applied.
TurnApplied == sequence'[Len(sequence')]

MoveTable_init(coord_type) ==
    [face \in Faces |-> [table |-> get_size(coord_type),
                         inverse_table |-> get_size(coord_type)]]

\* let mut tables: HashMap<Coordinate, MoveTable> = HashMap::new()
GenerateInit ==
    /\ mg_tables = <<>>
    /\ mg_next = 1
    /\ mg_coord_type = "CornerState" /\ mg_coord = 0 /\ mg_turn = NoTurn
    /\ mg_result = 0
    /\ mg_pc = "generating"
    /\ ld_file = [exists |-> FALSE, words |-> <<>>] /\ ld_pos = 0
    /\ CdIdle /\ MtIdle /\ SqIdle /\ PtIdle /\ SrIdle /\ TcIdle /\ ApIdle

\* One iteration of `for coord in Coordinate::iter()`:
\* tables.insert(coord, MoveTable::new(coord)).
GenerateInsert ==
    /\ mg_pc = "generating"
    /\ mg_next <= Len(CoordinateIter)
    /\ mg_tables' = [coord_type \in DOMAIN mg_tables \cup {CoordinateIter[mg_next]} |->
                        IF coord_type = CoordinateIter[mg_next]
                        THEN MoveTable_init(coord_type)
                        ELSE mg_tables[coord_type]]
    /\ mg_next' = mg_next + 1
    /\ UNCHANGED <<mg_coord_type, mg_coord, mg_turn, mg_result, mg_pc, ld_file, ld_pos,
                   cd_vars, mt_vars, sq_vars, pt_vars, sr_vars, tc_vars, ap_vars>>

\* Self { tables }
GenerateReturn ==
    /\ mg_pc = "generating"
    /\ mg_next > Len(CoordinateIter)
    /\ mg_pc' = "generated"
    /\ UNCHANGED <<mg_tables, mg_next, mg_coord_type, mg_coord, mg_turn, mg_result,
                   ld_file, ld_pos,
                   cd_vars, mt_vars, sq_vars, pt_vars, sr_vars, tc_vars, ap_vars>>

\* MoveTables::apply_move_to_coord(coord, coord_type, turn) on the generated
\* tables: self.tables.get(&coord_type).unwrap() panics where the family has
\* no table; otherwise the entry of the table of the turn is returned.
ApplyMove ==
    /\ mg_pc = "generated"
    /\ \E coord_type \in AllCoordinates, turn \in AllTurns :
          \E coord \in {0, get_size(coord_type) - 1} :
              /\ mg_coord_type' = coord_type
              /\ mg_coord' = coord
              /\ mg_turn' = turn
              /\ IF coord_type \in DOMAIN mg_tables
                 THEN /\ mg_result' = apply_move_to_coord(coord, coord_type, turn)
                      /\ mg_pc' = "applied"
                 ELSE /\ mg_result' = mg_result
                      /\ mg_pc' = "panicked"
    /\ UNCHANGED <<mg_tables, mg_next, ld_file, ld_pos,
                   cd_vars, mt_vars, sq_vars, pt_vars, sr_vars, tc_vars, ap_vars>>

GenerateNext == GenerateInsert \/ GenerateReturn \/ ApplyMove

SpecGenerate == GenerateInit /\ [][GenerateNext]_vars

\* For each of the eight faces the family has a forward and an inverse
\* array of length |T|.
HasArrays(coord_type) ==
    /\ coord_type \in DOMAIN mg_tables
    /\ DOMAIN mg_tables[coord_type] = Faces
    /\ \A face \in Faces :
          /\ mg_tables[coord_type][face].table = get_size(coord_type)
          /\ mg_tables[coord_type][face].inverse_table = get_size(coord_type)

InvertedRawTurn ==
    \A face \in Faces :
        LET once == RawState_apply(raw, Turn(face, FALSE))
            twice == RawState_apply(once, Turn(face, FALSE))
        IN /\ RawState_apply(raw, Turn(face, TRUE)) = twice
           /\ RawState_apply(once, Turn(face, TRUE)) = raw
           /\ RawState_apply(twice, Turn(face, FALSE)) = raw

\* R and then R inverted have been applied to the solved RawState, which is
\* solved again; after R alone it was not.
InvertedRawTurnWitness ==
    /\ sequence = <<Turn("R", FALSE), Turn("R", TRUE)>>
    /\ raw = RawState_solved
    /\ RawState_apply(RawState_solved, Turn("R", FALSE)) # RawState_solved

(***************************************************************************)
(* SpecFullCorner: apply_full_corner(state, perm_effect, orient_effect)    *)
(***************************************************************************)
\* Xor of the low bits of the slots of a corner state.
SlotParity(state) ==
    LET ones == Cardinality({i \in DOMAIN state : state[i] % 2 = 1})
    IN ones % 2

\* The permutations of the six corner positions, as effects.
CornerEffects ==
    {[i \in 0..(NUM_CORNERS - 1) |-> p[i + 1] - 1] : p \in Permutations(1..NUM_CORNERS)}

\* The start states of test_apply_full_corner.
FullCornerStates ==
    {Arr(<<0, 2, 4, 6, 8, 10>>), Arr(<<6, 4, 2, 9, 10, 1>>)}

FullCornerInit ==
    /\ ap_state \in FullCornerStates
    /\ ap_orig_state = ap_state
    /\ ap_effect \in CornerEffects
    /\ ap_orient_effect \in 0..63
    /\ ap_i = 0
    /\ ap_pc = "apply_full_corner"
    /\ CdIdle /\ MtIdle /\ SqIdle /\ PtIdle /\ SrIdle /\ TcIdle /\ MgIdle

\* apply_full_corner(state, perm_effect, orient_effect), whole.
ApplyFullCorner ==
    /\ ap_pc = "apply_full_corner"
    /\ ap_state' = apply_full_corner(ap_state, ap_effect, ap_orient_effect)
    /\ ap_pc' = "returned"
    /\ UNCHANGED <<ap_orig_state, ap_effect, ap_orient_effect, ap_i,
                   cd_vars, mt_vars, sq_vars, pt_vars, sr_vars, tc_vars, mg_vars>>

FullCornerNext == ApplyFullCorner

SpecFullCorner == FullCornerInit /\ [][FullCornerNext]_vars

\* C22: if the low bits of the six slots xor to 0 before
\* apply_full_corner(state, perm, delta), they xor to 0 afterwards, for every
\* permutation perm and every 6-bit delta, and the slot values divided by 2
\* are the input's values divided by 2, permuted by perm.
FullCornerKeepsParity ==
    ap_pc = "returned" =>
        /\ SlotParity(ap_orig_state) = 0 => SlotParity(ap_state) = 0
        /\ \A i \in DOMAIN ap_state :
              ap_state[i] \div 2 = ap_orig_state[ap_effect[i]] \div 2

\* The last case of test_apply_full_corner has returned: [6,4,2,9,10,1] under
\* [5,3,4,2,0,1] with delta 0b010001 is [1,8,10,2,6,5].
FullCornerKeepsParityWitness ==
    /\ ap_pc = "returned"
    /\ ap_orig_state = Arr(<<6, 4, 2, 9, 10, 1>>)
    /\ ap_effect = Arr(<<5, 3, 4, 2, 0, 1>>)
    /\ ap_orient_effect = 17
    /\ ap_state = Arr(<<1, 8, 10, 2, 6, 5>>)
    /\ SlotParity(ap_orig_state) = 0

\* The corner coordinate the last iteration of the loop has decoded.
DecodedCoord == tc_coord - 1

\* C23: for every coord in 0..359 invert_coord_to_permutation::<6> returns
\* an even permutation of 0..5, and for every coord in 0..11519
\* invert_coord_to_corner_state returns six slots whose positions (value / 2)
\* form an even permutation of 0..5 and whose orientation bits (value mod 2)
\* xor to 0.
DecodersGiveEvenParity ==
    (tc_pc = "filling" /\ tc_coord > 0) =>
        LET state == coord_to_state("CornerState", DecodedCoord)
            positions == [i \in DOMAIN state |-> state[i] \div 2]
        IN /\ DecodedCoord \in 0..(NUM_CORNER_STATES - 1)
           /\ IsPermutationOf(positions, NUM_CORNERS)
           /\ InversionCount(positions) % 2 = 0
           /\ SlotParity(state) = 0
           /\ DecodedCoord < NUM_CORNER_PERMS =>
                 LET perm == invert_coord_to_permutation(NUM_CORNERS, DecodedCoord)
                 IN /\ IsPermutationOf(perm, NUM_CORNERS)
                    /\ InversionCount(perm) % 2 = 0
                    /\ is_even_parity(perm)

\* A coordinate below 360 has been decoded for which the permutation read
\* off the coordinate is odd, so that its first two pieces were exchanged.
DecodersGiveEvenParityWitness ==
    /\ tc_pc = "filling" /\ tc_coord > 0 /\ DecodedCoord < NUM_CORNER_PERMS
    /\ ~is_even_parity(invert_coord_to_permutation_ignore_parity(NUM_CORNERS, DecodedCoord))
    /\ invert_coord_to_permutation(NUM_CORNERS, DecodedCoord)
          # invert_coord_to_permutation_ignore_parity(NUM_CORNERS, DecodedCoord)
    /\ tc_item = get_down_centre_coord_for_matched_triples(DecodedCoord)

\* C24: initialised with the four up faces, populate_coordinate for
\* CornerState terminates (every iteration of its two loops writes an entry,
\* and the distance counter does not overflow) with each of the 11520
\* entries filled, every coordinate other than 0 one step further from 0
\* than its image under some up-face turn.
UpFacesFillCorners ==
    [][(pt_faces = get_up_faces /\ pt_coord_type = "CornerState") =>
          /\ pt_remaining' < pt_remaining
          /\ pt_pc' # "overflow"
          /\ pt_pc' = "returned" =>
                /\ pt_remaining' = 0
                /\ DOMAIN pt_table' = 0..(NUM_CORNER_STATES - 1)
                /\ \A c \in DOMAIN pt_table' :
                      /\ pt_table'[c] # U8_MAX
                      /\ c # 0 =>
                            \E t \in SimplePruningTable_get_allowed_turns(get_up_faces) :
                                pt_table'[MoveTable_apply(pt_move_table, c, "CornerState", t)]
                                    = pt_table'[c] - 1]_vars

\* populate_coordinate has returned the CornerState table built with the
\* up faces, after the backward loop has run.
UpFacesFillCornersWitness ==
    /\ pt_pc = "returned" /\ pt_faces = get_up_faces /\ pt_coord_type = "CornerState"
    /\ pt_remaining = 0
    /\ Cardinality(pt_fill_list) >= forward_stop_point(pt_coord_type)
    /\ \A c \in AllCoords(pt_coord_type) : pt_table[c] < pt_distance

(***************************************************************************)
(* SpecOutOfRange: coord_to_state, MoveTable::apply_move_to_coord and a    *)
(* pruning lookup called with a coordinate at or beyond get_size           *)
(***************************************************************************)
\* Number of coordinates beyond the range of a family that are tried.
MaxBeyond == 8

\* Mutant: the index is not checked against the length.
index_in_bounds_unchecked(len, index) == TRUE

\* vec[index as usize] on a Vec of len entries: an index at or beyond len
\* panics.
index_in_bounds(len, index) == index < len

\* The first coordinate of the range, the first MaxBeyond beyond it, and the
\* first MaxBeyond of its second and third repetition.
OutOfRangeInit ==
    /\ cd_family \in AllCoordinates
    /\ cd_coord \in {0} \cup {n * get_size(cd_family) + k : n \in 1..3, k \in 0..(MaxBeyond - 1)}
    /\ cd_state = <<>>
    /\ cd_out = 0
    /\ cd_pc = "start"
    /\ MtIdle /\ SqIdle /\ PtIdle /\ SrIdle /\ TcIdle /\ ApIdle /\ MgIdle

\* MoveTable::apply_move_to_coord on the populated table of the family:
\* move_table[coord as usize], each vector holding get_size entries.
MoveTableLookup ==
    /\ cd_pc = "start"
    /\ \E turn \in AllTurns :
          IF index_in_bounds(get_size(cd_family), cd_coord)
          THEN /\ cd_out' = apply_move_to_coord(cd_coord, cd_family, turn)
               /\ cd_pc' = "applied"
          ELSE /\ cd_out' = cd_out
               /\ cd_pc' = "panicked"
    /\ UNCHANGED <<cd_family, cd_coord, cd_state, mt_vars, sq_vars, pt_vars, sr_vars,
                   tc_vars, ap_vars, mg_vars>>

\* SimplePruningTable::get_distance_lower_bound(&[coord], &[coord_type]) on
\* the table populate_coordinate has allocated (get_size entries, table[0] =
\* 0): lookup[coord as usize].
PruningLookup ==
    /\ cd_pc = "start"
    /\ IF index_in_bounds(get_size(cd_family), cd_coord)
       THEN /\ cd_out' = get_distance_lower_bound(
                             [coord_type \in {cd_family} |-> [c \in {0} |-> 0]],
                             <<cd_coord>>, <<cd_family>>)
            /\ cd_pc' = "looked_up"
       ELSE /\ cd_out' = cd_out
            /\ cd_pc' = "panicked"
    /\ UNCHANGED <<cd_family, cd_coord, cd_state, mt_vars, sq_vars, pt_vars, sr_vars,
                   tc_vars, ap_vars, mg_vars>>

OutOfRangeNext == Decode \/ Encode \/ MoveTableLookup \/ PruningLookup

SpecOutOfRange == OutOfRangeInit /\ [][OutOfRangeNext]_vars

\* C25 as stated: coord_to_state, apply_move_to_coord and a pruning lookup
\* called with a coordinate c >= get_size(family) end in a panic and return
\* neither a state nor a value.
OutOfRangeIsFatal ==
    cd_coord >= get_size(cd_family) => cd_pc \in {"start", "panicked"}

\* C25: apply_move_to_coord and a pruning lookup called with a coordinate
\* c >= get_size(family) end in a panic, and return a value for a coordinate
\* of the range; coord_to_state does not panic for such a c but returns the
\* state of the in-range coordinate c mod get_size(family), which
\* state_to_coord encodes as c mod get_size(family).
OutOfRangeLookupsAreFatal ==
    /\ cd_pc = "panicked" <=>
          (cd_pc # "start" /\ cd_state = <<>> /\ cd_coord >= get_size(cd_family))
    /\ cd_pc \in {"applied", "looked_up"} =>
          cd_coord < get_size(cd_family) /\ cd_out \in 0..(get_size(cd_family) - 1)
    /\ cd_pc \in {"decoded", "encoded"} =>
          cd_state = coord_to_state(cd_family, cd_coord % get_size(cd_family))
    /\ cd_pc = "encoded" => cd_out = cd_coord % get_size(cd_family)

\* coord_to_state has returned a state for the CornerState coordinate
\* 11520, the state of coordinate 0, and a table lookup would have panicked.
OutOfRangeLookupsAreFatalWitness ==
    /\ cd_pc = "encoded" /\ cd_family = "CornerState"
    /\ cd_coord = NUM_CORNER_STATES
    /\ cd_state = Arr(<<0, 2, 4, 6, 8, 10>>) /\ cd_out = 0
    /\ ~index_in_bounds(get_size(cd_family), cd_coord)

(***************************************************************************)
(* SpecLoad: MoveTables::try_load_or_generate                              *)
(*                                                                         *)
(* movetables.dat is a sequence of big-endian u32 words.  A word is kept   *)
(* as such; the get_size values that follow a face tag are kept as one     *)
(* item holding their number.                                              *)
(***************************************************************************)
Word(n) == [kind |-> "word", n |-> n]
Values(len) == [kind |-> "values", n |-> len]

\* Coordinate::to_byte
Coordinate_to_byte(coord_type) ==
    CASE coord_type = "CornerState" -> 67
      [] coord_type = "EdgeInFace" -> 69
      [] coord_type = "EdgeAcrossFaces" -> 65
      [] coord_type = "UpCentre" -> 85
      [] coord_type = "DownCentre" -> 68
      [] coord_type = "TripleCentre" -> 84

\* Mutant: an unrecognised byte is read as CornerState.
Coordinate_from_byte_lenient(byte) ==
    IF \E coord_type \in AllCoordinates : Coordinate_to_byte(coord_type) = byte
    THEN CHOOSE coord_type \in AllCoordinates : Coordinate_to_byte(coord_type) = byte
    ELSE "CornerState"

\* Coordinate::from_byte: panic!("Unrcognised coordinate type") otherwise.
Coordinate_from_byte(byte) ==
    IF \E coord_type \in AllCoordinates : Coordinate_to_byte(coord_type) = byte
    THEN CHOOSE coord_type \in AllCoordinates : Coordinate_to_byte(coord_type) = byte
    ELSE "panic"

\* Face::to_byte
Face_to_byte(face) ==
    CASE face = "U" -> 85
      [] face = "F" -> 70
      [] face = "BL" -> 80
      [] face = "BR" -> 83
      [] face = "L" -> 76
      [] face = "R" -> 82
      [] face = "B" -> 66
      [] face = "D" -> 68

\* Face::from_byte: panic!("Unrecognised byte") otherwise.
Face_from_byte(byte) ==
    IF \E face \in Faces : Face_to_byte(face) = byte
    THEN CHOOSE face \in Faces : Face_to_byte(face) = byte
    ELSE "panic"

\* MoveTable::save: for each face its tag and its values.
RECURSIVE MoveTable_save(_, _)
MoveTable_save(coord_type, faces) ==
    IF faces = <<>> THEN <<>>
    ELSE <<Word(Face_to_byte(Head(faces))), Values(get_size(coord_type))>>
             \o MoveTable_save(coord_type, Tail(faces))

\* MoveTables::save: for each table its tag, the table and a 0; then a 0.
\* The HashMaps are written here in the order of Coordinate::iter and
\* Face::get_all_faces.
RECURSIVE MoveTables_save(_)
MoveTables_save(coord_types) ==
    IF coord_types = <<>> THEN <<Word(0)>>
    ELSE <<Word(Coordinate_to_byte(Head(coord_types)))>>
             \o MoveTable_save(Head(coord_types), get_all_faces)
             \o <<Word(0)>>
             \o MoveTables_save(Tail(coord_types))

\* MoveTable::read_from_buffer from word pos on: the position after the 0
\* closing the table, or a panic (read_exact at the end of the file, or an
\* unrecognised face byte).
RECURSIVE read_from_buffer(_, _, _)
read_from_buffer(words, pos, coord_type) ==
    IF pos > Len(words) THEN [panic |-> TRUE, pos |-> pos]
    ELSE LET face_byte == words[pos].n % 256
         IN IF face_byte = 0 THEN [panic |-> FALSE, pos |-> pos + 1]
            ELSE IF Face_from_byte(face_byte) = "panic" THEN [panic |-> TRUE, pos |-> pos]
            ELSE IF pos + 1 > Len(words) THEN [panic |-> TRUE, pos |-> pos + 1]
            ELSE IF words[pos + 1].n < get_size(coord_type)
                 THEN [panic |-> TRUE, pos |-> pos + 1]
                 ELSE read_from_buffer(words, pos + 2, coord_type)

\* The file save writes for the generated tables.
SavedFile == MoveTables_save(CoordinateIter)

\* A byte that is the tag of no family and of no face.
UnknownTag == 88

\* The files try_load_or_generate is run on: no file, the saved file, the
\* saved file cut after any number of items or inside a block of values,
\* and the saved file with one tag replaced by an unknown one.
LoadFiles ==
    {[exists |-> FALSE, words |-> <<>>]}
        \cup {[exists |-> TRUE, words |-> SubSeq(SavedFile, 1, n)] : n \in 0..Len(SavedFile)}
        \cup {[exists |-> TRUE,
               words |-> IF SavedFile[n].kind = "word"
                         THEN [SavedFile EXCEPT ![n] = Word(UnknownTag)]
                         ELSE SubSeq(SavedFile, 1, n - 1) \o <<Values(SavedFile[n].n - 1)>>] :
                  n \in 1..Len(SavedFile)}

LoadInit ==
    /\ ld_file \in LoadFiles
    /\ ld_pos = 0
    /\ mg_tables = <<>> /\ mg_next = 0
    /\ mg_coord_type = "CornerState" /\ mg_coord = 0 /\ mg_turn = NoTurn /\ mg_result = 0
    /\ mg_pc = "opening"
    /\ CdIdle /\ MtIdle /\ SqIdle /\ PtIdle /\ SrIdle /\ TcIdle /\ ApIdle

\* match File::open(MOVE_TABLE_FILE): Ok(file) => Self::load(file),
\* _ => Self::generate()
OpenFile ==
    /\ mg_pc = "opening"
    /\ IF ld_file.exists
       THEN mg_pc' = "loading" /\ ld_pos' = 1 /\ mg_next' = mg_next
       ELSE mg_pc' = "generating" /\ mg_next' = 1 /\ ld_pos' = ld_pos
    /\ UNCHANGED <<mg_tables, mg_coord_type, mg_coord, mg_turn, mg_result, ld_file,
                   cd_vars, mt_vars, sq_vars, pt_vars, sr_vars, tc_vars, ap_vars>>

\* let coord_byte = read_next_num(&mut reader) as u8, where the file has a
\* word left to read.
coord_byte == ld_file.words[ld_pos].n % 256

\* read_exact finds no word left: expect panics.
EndOfFile == ld_pos > Len(ld_file.words)

\* One iteration of the loop of MoveTables::load that reads a table: the
\* family tag, then MoveTable::read_from_buffer, then tables.insert.
LoadTable ==
    /\ mg_pc = "loading"
    /\ IF EndOfFile THEN TRUE ELSE coord_byte # 0
    /\ IF EndOfFile
       THEN mg_pc' = "panicked" /\ UNCHANGED <<mg_tables, mg_coord_type, ld_pos>>
       ELSE LET coord == Coordinate_from_byte(coord_byte)
                read == read_from_buffer(ld_file.words, ld_pos + 1, coord)
            IN IF coord = "panic"
               THEN mg_pc' = "panicked" /\ UNCHANGED <<mg_tables, mg_coord_type, ld_pos>>
               ELSE /\ mg_coord_type' = coord
                    /\ ld_pos' = read.pos
                    /\ IF read.panic
                       THEN mg_pc' = "panicked" /\ mg_tables' = mg_tables
                       ELSE /\ mg_pc' = mg_pc
                            /\ mg_tables' = [coord_type \in DOMAIN mg_tables \cup {coord} |->
                                                IF coord_type = coord
                                                THEN MoveTable_init(coord_type)
                                                ELSE mg_tables[coord_type]]
    /\ UNCHANGED <<mg_next, mg_coord, mg_turn, mg_result, ld_file,
                   cd_vars, mt_vars, sq_vars, pt_vars, sr_vars, tc_vars, ap_vars>>

\* if coord_byte == 0 { break }; result
LoadReturn ==
    /\ mg_pc = "loading"
    /\ ~EndOfFile
    /\ coord_byte = 0
    /\ mg_pc' = "returned"
    /\ ld_pos' = ld_pos + 1
    /\ UNCHANGED <<mg_tables, mg_next, mg_coord_type, mg_coord, mg_turn, mg_result, ld_file,
                   cd_vars, mt_vars, sq_vars, pt_vars, sr_vars, tc_vars, ap_vars>>

\* move_tables.save(); move_tables
SaveGenerated ==
    /\ mg_pc = "generated"
    /\ ld_file' = [exists |-> TRUE, words |-> SavedFile]
    /\ mg_pc' = "returned"
    /\ UNCHANGED <<mg_tables, mg_next, mg_coord_type, mg_coord, mg_turn, mg_result, ld_pos,
                   cd_vars, mt_vars, sq_vars, pt_vars, sr_vars, tc_vars, ap_vars>>

LoadNext ==
    OpenFile \/ LoadTable \/ LoadReturn \/ GenerateInsert \/ GenerateReturn \/ SaveGenerated

SpecLoad == LoadInit /\ [][LoadNext]_vars

\* The move tables of the five families of Coordinate::iter are there.
CompleteTables ==
    /\ DOMAIN mg_tables = {CoordinateIter[i] : i \in 1..Len(CoordinateIter)}
    /\ \A coord_type \in DOMAIN mg_tables : HasArrays(coord_type)

FacePosition(face) ==
    CHOOSE k \in 1..8 : <<"U", "F", "BL", "BR", "L", "R", "B", "D">>[k] = face

\* Position of a turn when the faces are taken in the order of the face
\* list, each clockwise and then inverted.
TurnPosition(turn) == 2 * (FacePosition(turn.face) - 1) + (IF turn.invert THEN 2 ELSE 1)

\* The turns whose loop body, at the root of the returned search, returns a
\* solution of the given length.
RootTurnsGiving(length) ==
    {get_all_turns[i] : i \in {j \in 1..Len(get_all_turns) :
        Len(search_phase_1_turn(sr_state, sr_pruning_tables, sr_limit, NoTurn, j)) = length}}

\* The original statement of C27: the loop visits the faces in the reverse
\* of the face list, so the first turn of a returned solution is on the last
\* face of the list among the turns that start a solution of that length.
FirstFoundIsLastFace ==
    (sr_pc = "returned" /\ sr_solution # <<>>) =>
        \A turn \in RootTurnsGiving(Len(sr_solution)) :
            FacePosition(turn.face) <= FacePosition(sr_solution[1].face)

\* C27: at every node search_phase_1 tries the 16 (face, invert) pairs, each
\* exactly once, the faces in the order of the face list U, F, BL, BR, L, R,
\* B, D and each face clockwise first; the first turn of a returned solution
\* is the first in that order among the turns that start any solution
\* within the limit.
FirstFoundIsFirstFace ==
    /\ Len(get_all_turns) = 16
    /\ \A face \in Faces, invert \in BOOLEAN :
           Cardinality({i \in 1..Len(get_all_turns) :
                           get_all_turns[i] = Turn(face, invert)}) = 1
    /\ \A i \in 1..Len(get_all_turns) : TurnPosition(get_all_turns[i]) = i
    /\ (sr_pc = "returned" /\ sr_solution # <<>>) =>
           \A length \in 1..sr_limit : \A turn \in RootTurnsGiving(length) :
               TurnPosition(sr_solution[1]) <= TurnPosition(turn)

\* A returned solution starts with U although a turn of a later face, BR
\* inverted, starts a solution of the same length.
FirstFoundIsFirstFaceWitness ==
    /\ sr_pc = "returned" /\ sr_solution # <<>>
    /\ sr_solution[1] = Turn("U", FALSE)
    /\ Turn("BR", TRUE) \in RootTurnsGiving(Len(sr_solution))

(***************************************************************************)
(* SpecRandom: CoordState::get_random() converted with to_raw()            *)
(***************************************************************************)
\* Width of the windows the random coordinates are drawn from.
MaxRandom == 6

\* rng.gen_range(0..size): the first and the last MaxRandom values of the range.
gen_range(size) == (0..(MaxRandom - 1)) \cup ((size - MaxRandom)..(size - 1))

\* CoordState::get_random: the five coordinates are drawn independently,
\* each from the range of its family.  The corner and centre coordinates,
\* which get_edges does not read, are drawn from the two ends of their ranges.
CoordState_get_random ==
    {[corners |-> c, edges_within_faces |-> w, edges_across_faces |-> a,
      up_centres |-> u, down_centres |-> d] :
        c \in {0, NUM_CORNER_STATES - 1},
        w \in gen_range(NUM_FACE_PIECE_PERMS),
        a \in gen_range(NUM_ACROSS_FACE_PERMS),
        u \in {0, NUM_FACE_PIECE_PERMS - 1},
        d \in {0, NUM_FACE_PIECE_PERMS - 1}}

\* let random = CoordState::get_random()
RandomInit ==
    /\ coords \in CoordState_get_random
    /\ raw = RawState_solved
    /\ sequence = <<>>
    /\ sq_pc = "get_random"
    /\ CdIdle /\ MtIdle /\ PtIdle /\ SrIdle /\ TcIdle /\ ApIdle /\ MgIdle

\* random.to_raw()
ToRaw ==
    /\ sq_pc = "get_random"
    /\ raw' = CoordState_to_raw(coords)
    /\ sq_pc' = "to_raw"
    /\ UNCHANGED <<coords, sequence, cd_vars, mt_vars, pt_vars, sr_vars, tc_vars,
                 ap_vars, mg_vars>>

RandomNext == ToRaw

SpecRandom == RandomInit /\ [][RandomNext]_vars

\* C28: for every CoordState whose five coordinates are each within the
\* range of their family, as get_random draws them, to_raw gives an edges
\* array that is a permutation of 0..11 with an even number of inversions.
RandomEdgesValid ==
    sq_pc = "to_raw" =>
        /\ IsPermutationOf(raw.edges, NUM_EDGES)
        /\ InversionCount(raw.edges) % 2 = 0

(***************************************************************************)
(* populate_coordinate with a face set that does not reach every coordinate *)
(***************************************************************************)
\* C29: for every face set given to SimplePruningTable::init and every
\* family, populate_coordinate runs to its return without the u8 distance
\* counter reaching 255 or overflowing, also when the forward frontier
\* becomes empty while remaining > 0.
PruningNeverOverflows ==
    /\ pt_pc # "overflow"
    /\ pt_pc \in {"forward", "backward"} => pt_distance < U8_MAX

(***************************************************************************)
(* The shape of the sequences search_phase_1 returns                       *)
(***************************************************************************)
\* The other face of the axis of a primary face.
OppositeOfPrimary(face) ==
    CASE face = "U" -> "D"
      [] face = "F" -> "B"
      [] face = "BL" -> "R"
      [] face = "BR" -> "L"
      [] OTHER -> "None"

\* C30: in every sequence search_phase_1 returns no two consecutive turns
\* are on the same face, a turn of a primary face U, F, BL, BR never
\* directly follows a turn of the other face of its axis (D, B, R, L), and
\* of the states the turns produce along the path only the last one is
\* phase-1-solved.
SolutionShape ==
    (sr_pc = "returned" /\ sr_solution # <<>>) =>
        /\ \A n \in 1..(Len(sr_solution) - 1) :
               /\ sr_solution[n].face # sr_solution[n + 1].face
               /\ sr_solution[n].face # OppositeOfPrimary(sr_solution[n + 1].face)
               /\ ~is_phase_1_solved(
                      CoordState_apply_sequence(sr_state, SubSeq(sr_solution, 1, n)))
        /\ is_phase_1_solved(CoordState_apply_sequence(sr_state, sr_solution))

\* A sequence of two turns of different faces has been returned: the state
\* after the first turn is not phase-1-solved, the state after the second is.
SolutionShapeWitness ==
    /\ sr_pc = "returned" /\ Len(sr_solution) = 2
    /\ sr_solution[1].face # sr_solution[2].face
    /\ ~is_phase_1_solved(CoordState_apply(sr_state, sr_solution[1]))
    /\ is_phase_1_solved(CoordState_apply_sequence(sr_state, sr_solution))


=============================================================================
